---- MODULE Spec2Model ----
(***************************************************************************)
(* Installation and state-tracking subsystem of ai-skills: the lock store  *)
(* (lock.ts), the canonical path functions (agents.ts), the installer      *)
(* (installer.ts) and the bridge-file writer (bridge.ts).                  *)
(*                                                                         *)
(* A path is a sequence of segments; an absolute path starts with the      *)
(* segment "/".  The filesystem is split by the kind of data it holds:     *)
(* dirs (existing directories), files (content files), locks (lock files)  *)
(* and bridges (bridge files).                                             *)
(***************************************************************************)
EXTENDS Integers, Sequences, FiniteSets, TLC

VARIABLES
  dirs,       \* set of absolute paths of the directories that exist
  files,      \* content files: absolute path -> content (sequence of char codes)
  locks,      \* lock files: lock path -> text of the file (or no file)
  readonly,   \* lock paths whose file cannot be written (EACCES)
  templates,  \* template root: item key -> source directory (file name -> content) or none
  bridges,    \* bridge files: absolute path -> text of the file (or no file)
  procs,      \* concurrent invocations: process -> position and locals
  calls,      \* number of operations run so far
  last        \* the last operation: its name, arguments and result

vars == <<dirs, files, locks, readonly, templates, bridges, procs, calls, last>>

----------------------------------------------------------------------------
(* Bounds of the model *)

MaxCalls == 2
MaxSteps == 3

----------------------------------------------------------------------------
(* Paths: node:path join/dirname on sequences of segments *)

Home == <<"/", "home">>
Cwd == <<"/", "work">>
Repo == <<"/", "repo">>
NoRoot == <<>>

CANONICAL_DIR == <<".ai">>
LOCK_FILE_NAME == <<".skill-lock.json">>
LOCK_FILE_VERSION == "1.0.0"

IsAbsolute(p) == Len(p) > 0 /\ p[1] = "/"

RECURSIVE NormSegs(_, _, _)
NormSegs(abs, acc, rest) ==
  IF rest = <<>> THEN acc
  ELSE LET s == Head(rest) IN
    IF s = "/" \/ s = "." \/ s = ""
      THEN NormSegs(abs, acc, Tail(rest))
    ELSE IF s = ".."
      THEN IF Len(acc) > 0 /\ acc[Len(acc)] # ".."
             THEN NormSegs(abs, SubSeq(acc, 1, Len(acc) - 1), Tail(rest))
           ELSE IF abs THEN NormSegs(abs, acc, Tail(rest))
           ELSE NormSegs(abs, Append(acc, s), Tail(rest))
    ELSE NormSegs(abs, Append(acc, s), Tail(rest))

\* path.join(a, b): concatenate, then normalize; a "/" inside the joined
\* path is only a separator, so an absolute b is re-rooted under a.
Join(a, b) ==
  LET whole == a \o b
      abs == IsAbsolute(whole)
      segs == NormSegs(abs, <<>>, whole)
  IN IF abs THEN <<"/">> \o segs ELSE segs

Dirname(p) == SubSeq(p, 1, Len(p) - 1)

\* A relative path handed to node:fs is resolved against process.cwd().
Resolve(p) == IF IsAbsolute(p) THEN p ELSE Join(Cwd, p)

Ancestors(p) == { SubSeq(p, 1, n) : n \in 1..Len(p) }

IsPrefix(p, q) == Len(p) <= Len(q) /\ SubSeq(q, 1, Len(p)) = p

----------------------------------------------------------------------------
(* Input domains *)

ContentTypes == {"skills", "agents", "commands", "rules", "prompts"}
Scopes == {"project", "global"}
AssistantIds == {"claude", "cursor"}

\* The catalog items the operations are called with: (type, id) pairs.
Items == { [type |-> "skills", id |-> "foo"], [type |-> "rules", id |-> "bar"] }

\* Project roots passed by the caller; NoRoot is an omitted argument.
Roots == {NoRoot, Repo}

\* Assistant lists of a call: the empty list and a list naming an assistant
\* twice included.
AssistantLists ==
  { <<>>, <<"claude">>, <<"cursor">>, <<"claude", "cursor">>, <<"cursor", "cursor">> }

\* File contents: sequences of character codes.
ContentA == <<35, 65>>
ContentB == <<35, 66, 10>>

----------------------------------------------------------------------------
(* agents.ts / lock.ts / catalog.ts: path functions *)

getItemKey(type, id) == <<type, id>>

getLockFilePath(scope, projectRoot) ==
  IF scope = "global"
    THEN Join(Join(Home, <<".ai">>), LOCK_FILE_NAME)
  ELSE LET root == IF projectRoot # NoRoot THEN projectRoot ELSE Cwd
       IN Join(Join(root, <<".ai">>), LOCK_FILE_NAME)

getCanonicalPathNoRoot(contentType, name, scope, projectRoot) ==
  LET basePath == IF scope = "global" THEN Join(Home, CANONICAL_DIR) ELSE CANONICAL_DIR
  IN Join(Join(basePath, <<contentType>>), <<name>>)

getCanonicalPath(contentType, name, scope, projectRoot) ==
  LET basePath == IF scope = "global" THEN Join(Home, CANONICAL_DIR) ELSE CANONICAL_DIR
      fullBase == IF projectRoot # NoRoot THEN Join(projectRoot, basePath) ELSE basePath
  IN Join(Join(fullBase, <<contentType>>), <<name>>)

getContentFileName(type) ==
  CASE type = "skills" -> "SKILL.md"
    [] type = "agents" -> "AGENT.md"
    [] type = "commands" -> "COMMAND.md"
    [] type = "rules" -> "RULE.md"
    [] type = "prompts" -> "PROMPT.md"

----------------------------------------------------------------------------
(* lock.ts: the lock file as a JSON text *)

Keys == { getItemKey(i.type, i.id) : i \in Items }

\* Every lock file the calls can address.
LockPaths == { getLockFilePath(sc, r) : sc \in Scopes, r \in Roots }

\* Optional fields (lastUpdateCheck, preferences) are <<>> when undefined
\* and <<v>> when set.
NoInstalled == [k \in {} |-> 0]

\* The value readLockFile synthesizes in its catch branch.
EmptyLockFile ==
  [shape |-> "lockfile", version |-> LOCK_FILE_VERSION, installed |-> NoInstalled,
   lastUpdateCheck |-> <<>>, preferences |-> <<>>]

\* JSON values that parse but are not a LockFile document: null, and an
\* object without an installed member ({}).
JsonNull == [EmptyLockFile EXCEPT !.shape = "null", !.version = ""]
JsonEmptyObject == [EmptyLockFile EXCEPT !.shape = "object", !.version = ""]

\* kind "none": no file; "json": the complete text JSON.stringify produced
\* for value; "partial": a proper prefix of that text (the file was opened
\* with truncation and not all of the text is written yet); "garbage":
\* text that is not JSON.
NoFile == [kind |-> "none", value |-> EmptyLockFile]
Garbage == [kind |-> "garbage", value |-> EmptyLockFile]

JsonStringify(v) == [kind |-> "json", value |-> v]
Truncated(v) == [kind |-> "partial", value |-> v]

\* JSON.parse: only a complete JSON text parses.
ParseThrows(text) == text.kind # "json"
JsonParse(text) == text.value

\* lockFile.installed is an object only when the parsed value has the
\* LockFile shape; on null or {} the member access lockFile.installed[key]
\* throws a TypeError.
HasInstalled(v) == v.shape = "lockfile"

readLockFile(lk, scope, projectRoot) ==
  LET lockPath == getLockFilePath(scope, projectRoot)
  IN IF lk[lockPath].kind = "none" \/ ParseThrows(lk[lockPath])
       THEN EmptyLockFile
     ELSE JsonParse(lk[lockPath])

\* A world is the part of the filesystem the lock store and the installer
\* touch: [dirs, files, locks]; readonly is the environment's.
World == [dirs |-> dirs, files |-> files, locks |-> locks]

MkdirP(ds, p) == ds \cup Ancestors(p)

\* writeLockFile: mkdir -p of the parent, then writeFile of the whole
\* document.  Returns [threw, w].
writeLockFile(w, lockFile, scope, projectRoot) ==
  LET lockPath == getLockFilePath(scope, projectRoot)
      made == [w EXCEPT !.dirs = MkdirP(@, Dirname(lockPath))]
  IN IF lockPath \in readonly
       THEN [threw |-> TRUE, w |-> made]
     ELSE [threw |-> FALSE,
           w |-> [made EXCEPT !.locks[lockPath] = JsonStringify(lockFile)]]

RECURSIVE Dedupe(_, _)
\* Array.from(new Set(xs)): first occurrences, in order.
Dedupe(seen, xs) ==
  IF xs = <<>> THEN seen
  ELSE IF \E i \in 1..Len(seen) : seen[i] = Head(xs)
         THEN Dedupe(seen, Tail(xs))
       ELSE Dedupe(Append(seen, Head(xs)), Tail(xs))

SetEntry(installed, key, entry) ==
  [k \in DOMAIN installed \cup {key} |-> IF k = key THEN entry ELSE installed[k]]

DeleteEntry(installed, key) ==
  [k \in DOMAIN installed \ {key} |-> installed[k]]

mergeEntryReplace(existing, item) == item

\* lock.ts 451-457: { ...item, assistants: Array.from(Set(existing ++ item)) }
mergeEntry(existing, item) ==
  [item EXCEPT !.assistants = Dedupe(<<>>, existing.assistants \o item.assistants)]

\* lock.ts 446-460: the document updateLockFile goes on to write.
Modified(lockFile, item) ==
  [lockFile EXCEPT !.installed =
     SetEntry(@, getItemKey(item.type, item.id),
              IF getItemKey(item.type, item.id) \in DOMAIN lockFile.installed
                THEN mergeEntry(lockFile.installed[getItemKey(item.type, item.id)], item)
              ELSE item)]

UpdateWith(w, lockFile, item, scope, projectRoot) ==
  IF ~HasInstalled(lockFile) THEN [threw |-> TRUE, w |-> w]
  ELSE writeLockFile(w, Modified(lockFile, item), scope, projectRoot)

\* updateLockFile: read-modify-write.  Returns [threw, w].  (The actions
\* record the document the call read in last.lockFile.)
updateLockFile(w, item, scope, projectRoot) ==
  UpdateWith(w, readLockFile(w.locks, scope, projectRoot), item, scope, projectRoot)

removeAssistantKeepEmpty(item, assistantId) ==
  [keep |-> TRUE,
   item |-> [item EXCEPT !.assistants = SelectSeq(@, LAMBDA a : a # assistantId)]]

\* lock.ts 481-487: filter the assistant out; an empty list deletes the entry.
removeAssistant(item, assistantId) ==
  LET left == SelectSeq(item.assistants, LAMBDA a : a # assistantId)
  IN [keep |-> left # <<>>, item |-> [item EXCEPT !.assistants = left]]

removeFromLockFileAlwaysWrites(w, type, id, assistantId, scope, projectRoot) ==
  LET lockFile == readLockFile(w.locks, scope, projectRoot)
      key == getItemKey(type, id)
  IN IF ~HasInstalled(lockFile)
       THEN [threw |-> TRUE, w |-> w]
     ELSE IF key \notin DOMAIN lockFile.installed
       THEN writeLockFile(w, lockFile, scope, projectRoot)
     ELSE LET r == removeAssistant(lockFile.installed[key], assistantId)
              installed == IF r.keep THEN SetEntry(lockFile.installed, key, r.item)
                           ELSE DeleteEntry(lockFile.installed, key)
          IN writeLockFile(w, [lockFile EXCEPT !.installed = installed],
                           scope, projectRoot)

\* removeFromLockFile.  Returns [threw, w].
removeFromLockFile(w, type, id, assistantId, scope, projectRoot) ==
  LET lockFile == readLockFile(w.locks, scope, projectRoot)
      key == getItemKey(type, id)
  IN IF ~HasInstalled(lockFile)
       THEN [threw |-> TRUE, w |-> w]
     ELSE IF key \notin DOMAIN lockFile.installed
       THEN [threw |-> FALSE, w |-> w]
     ELSE LET r == removeAssistant(lockFile.installed[key], assistantId)
              installed == IF r.keep THEN SetEntry(lockFile.installed, key, r.item)
                           ELSE DeleteEntry(lockFile.installed, key)
          IN writeLockFile(w, [lockFile EXCEPT !.installed = installed],
                           scope, projectRoot)

\* getInstalledItems: Object.values(lockFile.installed), as the set of
\* entries.  Returns [threw, items].
getInstalledItems(lk, scope, projectRoot) ==
  LET lockFile == readLockFile(lk, scope, projectRoot)
  IN IF ~HasInstalled(lockFile)
       THEN [threw |-> TRUE, items |-> {}]
     ELSE [threw |-> FALSE,
           items |-> { lockFile.installed[k] : k \in DOMAIN lockFile.installed }]

----------------------------------------------------------------------------
(* installer.ts: copying into the canonical directory *)

\* A template source directory: whether it exists, and its files.
NoEntries == [n \in {} |-> <<>>]
TemplateDir(type, c) ==
  [exists |-> TRUE,
   entries |-> [n \in {getContentFileName(type), "notes.md"} |-> c]]
TemplateMainOnly(type, c) ==
  [exists |-> TRUE, entries |-> [n \in {getContentFileName(type)} |-> c]]
TemplateNoContentFile ==
  [exists |-> TRUE, entries |-> [n \in {"notes.md"} |-> ContentA]]
TemplateMissing == [exists |-> FALSE, entries |-> NoEntries]

TemplateStates(type) ==
  {TemplateDir(type, ContentA), TemplateMainOnly(type, ContentB),
   TemplateNoContentFile, TemplateMissing}

DigitChars == <<"0", "1", "2", "3", "4", "5", "6", "7", "8", "9">>

RECURSIVE Decimal(_)
\* String(n) of a non-negative integer, as a sequence of characters.
Decimal(n) ==
  IF n < 10 THEN <<DigitChars[n + 1]>>
  ELSE Append(Decimal(n \div 10), DigitChars[(n % 10) + 1])

\* content.charCodeAt(i) is NaN when the index is out of range.
CharCodeAt(content, i) ==
  IF i >= 1 /\ i <= Len(content) THEN Decimal(content[i]) ELSE <<"N", "a", "N">>

Take(xs, n) == SubSeq(xs, 1, IF Len(xs) < n THEN Len(xs) ELSE n)

\* getContentHash: `${length}-${first}-${last}`, base64, first 12 base64
\* characters, which are the first 9 characters of the string.
HashOf(content) ==
  Take(Decimal(Len(content)) \o <<"-">> \o CharCodeAt(content, 1) \o <<"-">>
         \o CharCodeAt(content, Len(content)), 9)

\* Reads the template's content file; throws when it is not there.
HashThrows(item) ==
  \/ ~templates[getItemKey(item.type, item.id)].exists
  \/ getContentFileName(item.type)
       \notin DOMAIN templates[getItemKey(item.type, item.id)].entries

getContentHash(item) ==
  HashOf(templates[getItemKey(item.type, item.id)].entries[getContentFileName(item.type)])

copyDirKeepExisting(w, src, dest) ==
  LET made == [w EXCEPT !.dirs = MkdirP(@, dest)]
      new == { Append(dest, n) : n \in DOMAIN src.entries }
  IN IF ~src.exists THEN [threw |-> TRUE, w |-> made]
     ELSE [threw |-> FALSE,
           w |-> [made EXCEPT !.files =
                    [p \in DOMAIN w.files \cup new |->
                       IF p \in DOMAIN w.files THEN w.files[p]
                       ELSE src.entries[p[Len(p)]]]]]

\* copyDir(src, dest): mkdir -p dest, then readdir(src) (throws when src is
\* missing), then copyFile of every entry over whatever is at dest.
copyDir(w, src, dest) ==
  LET made == [w EXCEPT !.dirs = MkdirP(@, dest)]
      new == { Append(dest, n) : n \in DOMAIN src.entries }
  IN IF ~src.exists THEN [threw |-> TRUE, w |-> made]
     ELSE [threw |-> FALSE,
           w |-> [made EXCEPT !.files =
                    [p \in DOMAIN w.files \cup new |->
                       IF p \in new THEN src.entries[p[Len(p)]] ELSE w.files[p]]]]

\* installToCanonical + installToAi: the copy, with the catch that turns a
\* throw into { success: false, path: "", error }.
installToAi(w, item, scope, projectRoot) ==
  LET canonicalPath == getCanonicalPath(item.type, item.id, scope, projectRoot)
      r == copyDir(w, templates[getItemKey(item.type, item.id)], Resolve(canonicalPath))
  IN IF r.threw
       THEN [success |-> FALSE, path |-> <<>>, error |-> "ENOENT", w |-> r.w]
     ELSE [success |-> TRUE, path |-> canonicalPath, error |-> "", w |-> r.w]

InstalledItemOfCopy(item, hash, at, assistantIds, scope) ==
  [type |-> item.type, id |-> item.id, source |-> "builtin", hash |-> hash,
   installedAt |-> at, assistants |-> assistantIds, scope |-> scope,
   method |-> "copy"]

InstalledItemOf(item, hash, at, assistantIds, scope) ==
  [type |-> item.type, id |-> item.id, source |-> "builtin", hash |-> hash,
   installedAt |-> at, assistants |-> assistantIds, scope |-> scope,
   method |-> "symlink"]

ResultOf(r, item) ==
  [success |-> r.success, item |-> item, path |-> r.path, error |-> r.error]

RECURSIVE installLoop(_, _, _, _, _, _)

\* installer.ts 600-613: after a successful copy, hash the content file and
\* record the item; a throw here is outside installToAi's try and rejects
\* the whole installItems call.  u is updateLockFile's outcome.
installRecorded(u, results, left, assistantIds, scope, projectRoot) ==
  IF u.threw THEN [rejected |-> TRUE, w |-> u.w, results |-> results]
  ELSE installLoop(u.w, results, Tail(left), assistantIds, scope, projectRoot)

installStepRecordsFailures(r, results, left, assistantIds, scope, projectRoot) ==
  IF ~r.success
    THEN installRecorded(
           updateLockFile(r.w, InstalledItemOf(Head(left), <<>>, calls, assistantIds, scope),
                          scope, projectRoot),
           results, left, assistantIds, scope, projectRoot)
  ELSE IF HashThrows(Head(left))
    THEN [rejected |-> TRUE, w |-> r.w, results |-> results]
  ELSE installRecorded(
         updateLockFile(r.w,
           InstalledItemOf(Head(left), getContentHash(Head(left)), calls,
                           assistantIds, scope),
           scope, projectRoot),
         results, left, assistantIds, scope, projectRoot)

\* installer.ts 589-613: one turn of the loop, r being installToAi's result
\* for the item at the head of left.
installStep(r, results, left, assistantIds, scope, projectRoot) ==
  IF ~r.success
    THEN installLoop(r.w, results, Tail(left), assistantIds, scope, projectRoot)
  ELSE IF HashThrows(Head(left))
    THEN [rejected |-> TRUE, w |-> r.w, results |-> results]
  ELSE installRecorded(
         updateLockFile(r.w,
           InstalledItemOf(Head(left), getContentHash(Head(left)), calls,
                           assistantIds, scope),
           scope, projectRoot),
         results, left, assistantIds, scope, projectRoot)

\* The results pushed so far, then the turn's own.
installPushed(r, results, left, assistantIds, scope, projectRoot) ==
  installStep(r, Append(results, ResultOf(r, Head(left))), left, assistantIds,
              scope, projectRoot)

\* The for loop of installItems over the items left.  Returns
\* [rejected, w, results].
installLoop(w, results, left, assistantIds, scope, projectRoot) ==
  IF left = <<>> THEN [rejected |-> FALSE, w |-> w, results |-> results]
  ELSE installPushed(installToAi(w, Head(left), scope, projectRoot), results, left,
                     assistantIds, scope, projectRoot)

CountSuccess(results) == Cardinality({ i \in 1..Len(results) : results[i].success })

\* installer.ts 616-623: the summary over the results.
SummaryOf(results) ==
  [total |-> Len(results), successful |-> CountSuccess(results),
   failed |-> Len(results) - CountSuccess(results), results |-> results]

installOutcome(r) == [rejected |-> r.rejected, w |-> r.w, summary |-> SummaryOf(r.results)]

\* installItems(items, assistants, scope, _method, projectRoot = cwd).
installItems(w, items, assistantIds, scope, method, projectRoot) ==
  installOutcome(installLoop(w, <<>>, items, assistantIds, scope,
                             IF projectRoot = NoRoot THEN Cwd ELSE projectRoot))

----------------------------------------------------------------------------
(* State machine: one action per exported operation *)

NoBridges == [p \in {} |-> <<>>]
NoProcs == [p \in {} |-> <<>>]

InitDirs == Ancestors(Home) \cup Ancestors(Cwd) \cup Ancestors(Repo)
NoFiles == [p \in {} |-> <<>>]

Init ==
  /\ dirs = InitDirs
  /\ files = NoFiles
  /\ locks = [p \in LockPaths |-> NoFile]
  /\ readonly = {}
  /\ templates = [k \in Keys |-> TemplateDir(k[1], ContentA)]
  /\ bridges = NoBridges
  /\ procs = NoProcs
  /\ calls = 0
  /\ last = [op |-> "init"]

Apply(w) ==
  /\ dirs' = w.dirs
  /\ files' = w.files
  /\ locks' = w.locks

\* The InstalledItem values callers hand to updateLockFile directly.
LockItems(scope) ==
  { [type |-> i.type, id |-> i.id, source |-> v.source, hash |-> v.hash,
     installedAt |-> calls, assistants |-> a, scope |-> scope, method |-> v.method] :
      i \in Items,
      a \in { <<>>, <<"claude">>, <<"cursor">>, <<"claude", "cursor">> },
      v \in { [source |-> "builtin", hash |-> HashOf(ContentA), method |-> "symlink"],
              [source |-> "github:u/r", hash |-> HashOf(ContentB), method |-> "copy"] } }

\* The lock files the lock-store calls address: (scope, projectRoot).
LockTargets ==
  { [scope |-> "project", root |-> Repo], [scope |-> "global", root |-> NoRoot] }

UpdateLockFileCall(item, scope, root) ==
  /\ LET r == updateLockFile(World, item, scope, root)
     IN /\ Apply(r.w)
        /\ last' = [op |-> "updateLockFile", item |-> item, scope |-> scope,
                    root |-> root, threw |-> r.threw,
                    lockFile |-> readLockFile(locks, scope, root)]
  /\ calls' = calls + 1
  /\ UNCHANGED <<readonly, templates, bridges, procs>>

RemoveFromLockFileCall(type, id, assistantId, scope, root) ==
  /\ LET r == removeFromLockFile(World, type, id, assistantId, scope, root)
     IN /\ Apply(r.w)
        /\ last' = [op |-> "removeFromLockFile", type |-> type, id |-> id,
                    assistantId |-> assistantId, scope |-> scope, root |-> root,
                    threw |-> r.threw,
                    lockFile |-> readLockFile(locks, scope, root)]
  /\ calls' = calls + 1
  /\ UNCHANGED <<readonly, templates, bridges, procs>>

InstallItemsCall(items, assistantIds, scope, method, root) ==
  /\ LET r == installItems(World, items, assistantIds, scope, method, root)
     IN /\ Apply(r.w)
        /\ last' = [op |-> "installItems", items |-> items, assistants |-> assistantIds,
                    scope |-> scope, method |-> method, root |-> root,
                    rejected |-> r.rejected, summary |-> r.summary]
  /\ calls' = calls + 1
  /\ UNCHANGED <<readonly, templates, bridges, procs>>

\* Every specification stops after a bounded number of operations.
Next ==
  \/ \E t \in LockTargets :
       \E item \in LockItems(t.scope) :
         calls < MaxCalls /\ UpdateLockFileCall(item, t.scope, t.root)
  \/ \E i \in Items, a \in AssistantIds, t \in LockTargets :
       calls < MaxCalls /\ RemoveFromLockFileCall(i.type, i.id, a, t.scope, t.root)
  \/ \E items \in { <<[type |-> "skills", id |-> "foo"]>>,
                    <<[type |-> "skills", id |-> "foo"], [type |-> "rules", id |-> "bar"]>> },
        a \in AssistantLists, t \in LockTargets :
       calls < MaxCalls /\ InstallItemsCall(items, a, t.scope, "copy", t.root)

Spec == Init /\ [][Next]_vars

----------------------------------------------------------------------------
(* Claims about the lock store *)

Range(xs) == { xs[i] : i \in 1..Len(xs) }

\* What a reader of the lock file (scope, root) gets now.
InstalledNow(scope, root) == readLockFile(locks, scope, root).installed

SameButAssistants(a, b) == [a EXCEPT !.assistants = <<>>] = [b EXCEPT !.assistants = <<>>]

\* C1: updateLockFile merges instead of replacing.  When the document the
\* call read already held an entry under type/id, the lock file afterwards
\* holds one entry under that key, whose assistants are the earlier
\* assistants together with item.assistants and whose other fields are the
\* new item's; and an installItems call on an entry already present keeps
\* every assistant recorded before it (claude, then cursor, gives both).
C1_UpdateMerges ==
  [][ /\ ( /\ last'.op = "updateLockFile"
           /\ ~last'.threw
           /\ getItemKey(last'.item.type, last'.item.id) \in DOMAIN last'.lockFile.installed )
        => LET key == getItemKey(last'.item.type, last'.item.id)
               old == last'.lockFile.installed[key]
               got == getInstalledItems(locks', last'.scope, last'.root)
               now == { e \in got.items : getItemKey(e.type, e.id) = key }
           IN /\ ~got.threw
              /\ Cardinality(now) = 1
              /\ \A e \in now :
                   /\ Range(e.assistants) = Range(old.assistants) \cup Range(last'.item.assistants)
                   /\ SameButAssistants(e, last'.item)
      /\ ( /\ last'.op = "installItems"
           /\ ~last'.rejected )
        => \A i \in 1..Len(last'.items) :
             LET key == getItemKey(last'.items[i].type, last'.items[i].id)
                 before == readLockFile(locks, last'.scope, last'.root).installed
                 after == readLockFile(locks', last'.scope, last'.root).installed
             IN (key \in DOMAIN before /\ last'.summary.results[i].success)
                  => /\ key \in DOMAIN after
                     /\ Range(after[key].assistants) =
                          Range(before[key].assistants) \cup Range(last'.assistants)
    ]_vars

\* C1 witness: skills/foo was installed for claude and then for cursor, and
\* the lock entry names both.
C1_Witness ==
  /\ last.op = "installItems"
  /\ last.assistants = <<"cursor">>
  /\ ~last.rejected
  /\ last.items = <<[type |-> "skills", id |-> "foo"]>>
  /\ <<"skills", "foo">> \in DOMAIN InstalledNow(last.scope, last.root)
  /\ InstalledNow(last.scope, last.root)[<<"skills", "foo">>].assistants = <<"claude", "cursor">>

\* C2: removeFromLockFile takes assistantId out of the entry's assistants,
\* deletes the entry when none is left (getInstalledItems then returns no
\* entry for the key), and keeps the entry's other assistants and every
\* other key.
C2_RemoveShrinksOrDeletes ==
  ( /\ last.op = "removeFromLockFile"
    /\ ~last.threw
    /\ getItemKey(last.type, last.id) \in DOMAIN last.lockFile.installed )
  => LET key == getItemKey(last.type, last.id)
         before == last.lockFile.installed
         left == Range(before[key].assistants) \ {last.assistantId}
         got == getInstalledItems(locks, last.scope, last.root)
         now == { e \in got.items : getItemKey(e.type, e.id) = key }
     IN /\ ~got.threw
        /\ IF left = {} THEN now = {}
           ELSE /\ Cardinality(now) = 1
                /\ \A e \in now : Range(e.assistants) = left
                                   /\ SameButAssistants(e, before[key])
        /\ \A k \in DOMAIN before \ {key} : before[k] \in got.items
        /\ \A e \in got.items :
             getItemKey(e.type, e.id) # key => getItemKey(e.type, e.id) \in DOMAIN before

\* C2 witness: the last assistant of an entry was removed while another key
\* was installed; the entry is gone and the other key is still there.
C2_Witness ==
  /\ last.op = "removeFromLockFile"
  /\ ~last.threw
  /\ getItemKey(last.type, last.id) \in DOMAIN last.lockFile.installed
  /\ Range(last.lockFile.installed[getItemKey(last.type, last.id)].assistants)
       = {last.assistantId}
  /\ DOMAIN last.lockFile.installed = Keys
  /\ DOMAIN InstalledNow(last.scope, last.root) = Keys \ {getItemKey(last.type, last.id)}

\* C3 (as claimed): no entry of any lock file's installed map has an empty
\* assistants list.
C3_NoEmptyAssistants ==
  \A p \in LockPaths :
    (locks[p].kind = "json" /\ HasInstalled(locks[p].value))
      => \A k \in DOMAIN locks[p].value.installed :
           locks[p].value.installed[k].assistants # <<>>

----------------------------------------------------------------------------
(* Reading a lock file whose content the tool did not write *)

FooForClaude ==
  [type |-> "skills", id |-> "foo", source |-> "builtin", hash |-> HashOf(ContentA),
   installedAt |-> 0, assistants |-> <<"claude">>, scope |-> "project",
   method |-> "symlink"]

BarForCursor ==
  [type |-> "rules", id |-> "bar", source |-> "builtin", hash |-> HashOf(ContentA),
   installedAt |-> 0, assistants |-> <<"cursor">>, scope |-> "project",
   method |-> "symlink"]

DocWith(entry) ==
  [EmptyLockFile EXCEPT !.installed = SetEntry(NoInstalled, getItemKey(entry.type, entry.id), entry)]

\* What may be found at a lock path: nothing, a document, text that is not
\* JSON, a torn document, JSON null, JSON {}.
LockTexts ==
  { NoFile, JsonStringify(DocWith(BarForCursor)), Garbage, Truncated(DocWith(BarForCursor)),
    JsonStringify(JsonNull), JsonStringify(JsonEmptyObject) }

ReadLockFileCall(scope, root) ==
  /\ last' = [op |-> "readLockFile", scope |-> scope, root |-> root, threw |-> FALSE,
              lockFile |-> readLockFile(locks, scope, root)]
  /\ calls' = calls + 1
  /\ UNCHANGED <<dirs, files, locks, readonly, templates, bridges, procs>>

InitCorrupt ==
  /\ dirs = InitDirs
  /\ files = NoFiles
  /\ \E found \in [{ getLockFilePath(t.scope, t.root) : t \in LockTargets } -> LockTexts] :
       locks = [p \in LockPaths |-> IF p \in DOMAIN found THEN found[p] ELSE NoFile]
  /\ readonly = {}
  /\ templates = [k \in Keys |-> TemplateDir(k[1], ContentA)]
  /\ bridges = NoBridges
  /\ procs = NoProcs
  /\ calls = 0
  /\ last = [op |-> "init"]

NextCorrupt ==
  \/ \E t \in LockTargets : calls < MaxCalls /\ ReadLockFileCall(t.scope, t.root)
  \/ \E t \in LockTargets :
       calls < MaxCalls /\
       UpdateLockFileCall([FooForClaude EXCEPT !.scope = t.scope, !.installedAt = calls],
                          t.scope, t.root)

SpecCorrupt == InitCorrupt /\ [][NextCorrupt]_vars

\* The lock file is a JSON document of the LockFile shape.
WellShaped(text) == text.kind = "json" /\ text.value.shape = "lockfile"

\* C4 (as claimed): readLockFile returns a fresh empty LockFile whenever the
\* file is missing or is not a JSON document of the LockFile shape, and an
\* updateLockFile on such a file does not throw.
C4_ReadNeverFails ==
  /\ last.op = "readLockFile"
       => /\ ~last.threw
          /\ ~WellShaped(locks[getLockFilePath(last.scope, last.root)])
               => last.lockFile = EmptyLockFile
  /\ last.op = "updateLockFile" => ~last.threw

----------------------------------------------------------------------------
(* The installer under a changing template root and unwritable lock files *)

\* The template author edits, empties or removes an item's source directory.
EditTemplate(key, st) ==
  /\ templates[key] # st
  /\ templates' = [templates EXCEPT ![key] = st]
  /\ last' = [op |-> "editTemplate", key |-> key]
  /\ calls' = calls + 1
  /\ UNCHANGED <<dirs, files, locks, readonly, bridges, procs>>

\* The lock file at lockPath becomes unwritable, or writable again.
Chmod(lockPath) ==
  /\ readonly' = IF lockPath \in readonly THEN readonly \ {lockPath}
                 ELSE readonly \cup {lockPath}
  /\ last' = [op |-> "chmod", path |-> lockPath]
  /\ calls' = calls + 1
  /\ UNCHANGED <<dirs, files, locks, templates, bridges, procs>>

Foo == [type |-> "skills", id |-> "foo"]
Bar == [type |-> "rules", id |-> "bar"]

InstallTargets ==
  { [scope |-> "project", root |-> NoRoot], [scope |-> "project", root |-> Repo],
    [scope |-> "global", root |-> NoRoot] }

NextInstall ==
  \/ \E items \in { <<Foo>>, <<Foo, Bar>> }, a \in { <<"claude">>, <<"cursor">> },
        t \in InstallTargets :
       calls < MaxSteps /\ InstallItemsCall(items, a, t.scope, "copy", t.root)
  \/ \E st \in TemplateStates("skills") :
       calls < MaxSteps /\ EditTemplate(getItemKey("skills", "foo"), st)
  \/ \E p \in { getLockFilePath(t.scope, t.root) : t \in InstallTargets } :
       calls < MaxSteps /\ Chmod(p)

SpecInstall == Init /\ [][NextInstall]_vars

\* The root installItems works under: projectRoot defaults to process.cwd().
RootOf(root) == IF root = NoRoot THEN Cwd ELSE root

\* Where installItems puts the item on disk.
InstalledDir(item, scope, root) ==
  Resolve(getCanonicalPath(item.type, item.id, scope, RootOf(root)))

\* No filesystem failure is in the way of installing item at (scope, root):
\* its template directory and content file exist and the lock file can be
\* written.
CanInstall(item, scope, root) ==
  /\ templates[getItemKey(item.type, item.id)].exists
  /\ ~HashThrows(item)
  /\ getLockFilePath(scope, RootOf(root)) \notin readonly

\* The item is installed at (scope, root) for the assistants: its directory
\* exists and the lock file has an entry for it naming them.
IsInstalledFor(ds, lk, item, assistantIds, scope, root) ==
  /\ InstalledDir(item, scope, root) \in ds
  /\ getItemKey(item.type, item.id) \in DOMAIN readLockFile(lk, scope, RootOf(root)).installed
  /\ Range(assistantIds) \subseteq
       Range(readLockFile(lk, scope, RootOf(root)).installed[getItemKey(item.type, item.id)].assistants)

\* C5: install is idempotent.  An installItems call with a single item and
\* nothing failing returns total = 1, successful = 1, failed = 0; when the
\* item was already installed for that assistant, scope and root, the call
\* creates no further directory, every file of the source is in the one
\* canonical directory with its latest content (copyDir overwrites and adds
\* files, it deletes none), and the lock file has one entry for the key, with
\* the same assistants as before.
C5_InstallIdempotent ==
  [][ ( /\ last'.op = "installItems"
        /\ Len(last'.items) = 1
        /\ CanInstall(last'.items[1], last'.scope, last'.root) )
      => LET item == last'.items[1]
             key == getItemKey(item.type, item.id)
             dir == InstalledDir(item, last'.scope, last'.root)
             got == getInstalledItems(locks', last'.scope, RootOf(last'.root))
             now == { e \in got.items : getItemKey(e.type, e.id) = key }
         IN /\ ~last'.rejected
            /\ last'.summary.total = 1
            /\ last'.summary.successful = 1
            /\ last'.summary.failed = 0
            /\ dir \in dirs'
            /\ \A n \in DOMAIN templates[key].entries :
                 /\ Append(dir, n) \in DOMAIN files'
                 /\ files'[Append(dir, n)] = templates[key].entries[n]
            /\ Cardinality(now) = 1
            /\ IsInstalledFor(dirs, locks, item, last'.assistants, last'.scope, last'.root)
                 => /\ dirs' = dirs
                    /\ \A e \in now :
                         e.assistants = readLockFile(locks, last'.scope,
                                          RootOf(last'.root)).installed[key].assistants
    ]_vars

\* C5 witness: skills/foo was installed, its source was edited (SKILL.md
\* changed, notes.md dropped), and it was installed again for the same
\* assistant: the directory of the first install holds the new SKILL.md.
C5_Witness ==
  /\ last.op = "installItems"
  /\ last.items = <<Foo>>
  /\ last.assistants = <<"claude">>
  /\ ~last.rejected
  /\ last.summary.successful = 1
  /\ templates[getItemKey("skills", "foo")] = TemplateMainOnly("skills", ContentB)
  /\ Append(InstalledDir(Foo, last.scope, last.root), "notes.md") \in DOMAIN files
  /\ files[Append(InstalledDir(Foo, last.scope, last.root), "SKILL.md")] = ContentB
  /\ InstalledNow(last.scope, RootOf(last.root))[getItemKey("skills", "foo")].assistants
       = <<"claude">>

\* C6 (as claimed): installItems never rejects; it returns one result per
\* input item, total = number of items, successful + failed = total, and an
\* item whose copying, hashing or recording failed has a failed result.
C6_InstallNeverRejects ==
  last.op = "installItems"
    => /\ ~last.rejected
       /\ last.summary.total = Len(last.items)
       /\ Len(last.summary.results) = Len(last.items)
       /\ last.summary.successful + last.summary.failed = last.summary.total

----------------------------------------------------------------------------
(* bridge.ts: bridge files *)

BridgeDirOrder == <<"skills", "rules", "agents", "commands", "prompts", "context">>

\* getExistingDirs: the subdirectories of <projectRoot>/.ai that exist, in
\* the order they are probed.
getExistingDirs(ds, projectRoot) ==
  SelectSeq(BridgeDirOrder,
            LAMBDA t : Resolve(Join(Join(projectRoot, CANONICAL_DIR), <<t>>)) \in ds)

buildCoreInstructionsAlwaysRules(listed) ==
  SelectSeq(<<"rules", "skills", "context", "commands">>,
            LAMBDA t : t = "rules" \/ \E i \in 1..Len(listed) : listed[i] = t)

\* buildCoreInstructions: the paragraphs, each only when its directory is
\* listed.
buildCoreInstructions(listed) ==
  SelectSeq(<<"rules", "skills", "context", "commands">>,
            LAMBDA t : \E i \in 1..Len(listed) : listed[i] = t)

BridgePathOf(key) ==
  CASE key = "claude" -> <<"CLAUDE.md">>
    [] key = "cursor" -> <<".cursor", "rules", "ai-config.mdc">>
    [] key = "copilot" -> <<".github", "copilot-instructions.md">>
    [] key = "gemini" -> <<"GEMINI.md">>
    [] key = "windsurf" -> <<".windsurfrules">>
    [] key = "universal" -> <<"AGENTS.md">>

\* BRIDGE_GENERATORS[key](dirs): the file's text is its header, the
\* directory section (one line per listed directory) and the instructions.
BridgeFileOf(key, listed) ==
  [editorId |-> key, filePath |-> BridgePathOf(key),
   content |-> [header |-> key, directory |-> listed,
                instructions |-> buildCoreInstructions(listed)]]

BridgeFamilies == {"claude", "cursor", "copilot", "gemini", "windsurf", "universal"}
UniversalAssistants ==
  {"codex", "amp", "opencode", "cline", "roo", "continue", "goose", "kiro", "trae",
   "augment", "droid", "kilo"}

\* ASSISTANT_TO_BRIDGE; "" stands for undefined (an id without a family).
ASSISTANT_TO_BRIDGE(id) ==
  IF id \in {"claude", "cursor", "copilot", "gemini", "windsurf"} THEN id
  ELSE IF id = "antigravity" THEN "gemini"
  ELSE IF id \in UniversalAssistants THEN "universal"
  ELSE ""

bridgeKeysNoUniversal(assistantIds) ==
  Dedupe(<<>>,
         SelectSeq([i \in 1..Len(assistantIds) |-> ASSISTANT_TO_BRIDGE(assistantIds[i])],
                   LAMBDA k : k # ""))

\* The Set of bridge keys in insertion order, "universal" added last.
bridgeKeysOf(assistantIds) ==
  Dedupe(<<>>,
         SelectSeq([i \in 1..Len(assistantIds) |-> ASSISTANT_TO_BRIDGE(assistantIds[i])],
                   LAMBDA k : k # "")
           \o <<"universal">>)

FilesFor(keys, listed) == [i \in 1..Len(keys) |-> BridgeFileOf(keys[i], listed)]

DefaultDirs(existing) == IF existing = <<>> THEN <<"skills", "rules">> ELSE existing

\* generateBridgeFiles(assistants, projectRoot = cwd).
generateBridgeFiles(ds, assistantIds, projectRoot) ==
  FilesFor(bridgeKeysOf(assistantIds), DefaultDirs(getExistingDirs(ds, projectRoot)))

\* fs.promises.access(fullPath) succeeds on whatever exists there.
Exists(st, fullPath) == fullPath \in DOMAIN st.bridges \/ fullPath \in st.dirs

ShouldSkipNever(st, fullPath, overwrite) == FALSE

\* bridge.ts 289-297: without overwrite, an existing path is skipped.
ShouldSkip(st, fullPath, overwrite) == ~overwrite /\ Exists(st, fullPath)

\* bridge.ts 299-301: mkdir -p of the parent, writeFile, push to written.
WriteOne(st, file, fullPath) ==
  [dirs |-> MkdirP(st.dirs, Dirname(fullPath)),
   bridges |-> [p \in DOMAIN st.bridges \cup {fullPath} |->
                  IF p = fullPath THEN file.content ELSE st.bridges[p]],
   written |-> Append(st.written, file.filePath),
   skipped |-> st.skipped]

SkipOneCountsWritten(st, file) ==
  [st EXCEPT !.skipped = Append(@, file.filePath), !.written = Append(@, file.filePath)]

SkipOne(st, file) == [st EXCEPT !.skipped = Append(@, file.filePath)]

WriteOrSkip(st, file, fullPath, overwrite) ==
  IF ShouldSkip(st, fullPath, overwrite) THEN SkipOne(st, file)
  ELSE WriteOne(st, file, fullPath)

RECURSIVE writeBridgeLoop(_, _, _, _)
\* The for loop of writeBridgeFiles over the files left.
writeBridgeLoop(st, left, projectRoot, overwrite) ==
  IF left = <<>> THEN st
  ELSE writeBridgeLoop(
         WriteOrSkip(st, Head(left), Resolve(Join(projectRoot, Head(left).filePath)),
                     overwrite),
         Tail(left), projectRoot, overwrite)

\* writeBridgeFiles(files, projectRoot = cwd, overwrite = false).
writeBridgeFiles(ds, bs, fileList, projectRoot, overwrite) ==
  writeBridgeLoop([dirs |-> ds, bridges |-> bs, written |-> <<>>, skipped |-> <<>>],
                  fileList, IF projectRoot = NoRoot THEN Cwd ELSE projectRoot, overwrite)

BridgeWritten(r, fileList, root, overwrite) ==
  /\ dirs' = r.dirs
  /\ bridges' = r.bridges
  /\ last' = [op |-> "writeBridgeFiles", files |-> fileList, root |-> root,
              overwrite |-> overwrite, written |-> r.written, skipped |-> r.skipped]

\* The caller generates the bridge files for the assistants and writes them.
WriteBridgeFilesCall(assistantIds, root, overwrite) ==
  /\ BridgeWritten(
       writeBridgeFiles(dirs, bridges,
                        generateBridgeFiles(dirs, assistantIds,
                                            IF root = NoRoot THEN Cwd ELSE root),
                        root, overwrite),
       generateBridgeFiles(dirs, assistantIds, IF root = NoRoot THEN Cwd ELSE root),
       root, overwrite)
  /\ calls' = calls + 1
  /\ UNCHANGED <<files, locks, readonly, templates, procs>>

GenerateBridgeFilesCall(assistantIds, root) ==
  /\ last' = [op |-> "generateBridgeFiles", assistants |-> assistantIds, root |-> root,
              result |-> generateBridgeFiles(dirs, assistantIds,
                                             IF root = NoRoot THEN Cwd ELSE root)]
  /\ calls' = calls + 1
  /\ UNCHANGED <<dirs, files, locks, readonly, templates, bridges, procs>>

\* What a user's own version of a context file holds.
UserContent == [header |-> "user", directory |-> <<>>, instructions |-> <<>>]

\* The user customizes an existing bridge file.
UserEdit(path) ==
  /\ path \in DOMAIN bridges
  /\ bridges[path] # UserContent
  /\ bridges' = [bridges EXCEPT ![path] = UserContent]
  /\ last' = [op |-> "userEdit", path |-> path]
  /\ calls' = calls + 1
  /\ UNCHANGED <<dirs, files, locks, readonly, templates, procs>>

BridgePaths ==
  { Join(r, BridgePathOf(k)) : r \in {Cwd, Repo}, k \in BridgeFamilies }

\* A project that has no .ai/ yet, or one that has some of the six
\* subdirectories; with or without a CLAUDE.md of the user's own.
InitBridge ==
  /\ \E have \in { {}, {"rules", "agents"}, {"prompts"}, {"skills", "context", "commands"},
                     {"skills", "rules", "agents", "commands", "prompts", "context"} } :
       dirs = InitDirs
                \cup (IF have = {} THEN {} ELSE { Join(Cwd, <<".ai">>) })
                \cup { Join(Cwd, <<".ai", t>>) : t \in have }
  /\ files = NoFiles
  /\ locks = [p \in LockPaths |-> NoFile]
  /\ readonly = {}
  /\ templates = [k \in Keys |-> TemplateDir(k[1], ContentA)]
  /\ \E own \in { {}, { Join(Cwd, <<"CLAUDE.md">>) } } :
       bridges = [p \in own |-> UserContent]
  /\ procs = NoProcs
  /\ calls = 0
  /\ last = [op |-> "init"]

NextBridge ==
  \/ \E a \in { <<>>, <<"claude">>, <<"cursor", "codex">> }, root \in Roots,
        overwrite \in BOOLEAN :
       calls < MaxSteps /\ WriteBridgeFilesCall(a, root, overwrite)
  \/ \E p \in BridgePaths : calls < MaxSteps /\ UserEdit(p)
  \/ \E a \in { <<>>, <<"unknown">>, <<"codex", "amp">>, <<"gemini", "antigravity">>,
                 <<"claude", "cursor", "codex">>, <<"windsurf", "copilot", "kilo">> } :
       calls < MaxSteps /\ GenerateBridgeFilesCall(a, NoRoot)

SpecBridge == InitBridge /\ [][NextBridge]_vars

\* C7: writeBridgeFiles without the overwrite flag leaves every file that
\* exists as it is, and reports the path of each listed file that existed
\* in skipped and not in written.
C7_BridgeNoClobber ==
  [][ (last'.op = "writeBridgeFiles" /\ ~last'.overwrite)
      => /\ \A p \in DOMAIN bridges : p \in DOMAIN bridges' /\ bridges'[p] = bridges[p]
         /\ \A i \in 1..Len(last'.files) :
              Resolve(Join(RootOf(last'.root), last'.files[i].filePath)) \in DOMAIN bridges
                => /\ last'.files[i].filePath \in Range(last'.skipped)
                   /\ last'.files[i].filePath \notin Range(last'.written)
    ]_vars

\* C7 witness: a second writeBridgeFiles call without overwrite after the
\* user edited a file the first call wrote: AGENTS.md still holds the
\* user's text and is reported in skipped.
C7_Witness ==
  /\ last.op = "writeBridgeFiles"
  /\ ~last.overwrite
  /\ <<"AGENTS.md">> \in Range(last.skipped)
  /\ Join(RootOf(last.root), <<"AGENTS.md">>) \in DOMAIN bridges
  /\ bridges[Join(RootOf(last.root), <<"AGENTS.md">>)] = UserContent

----------------------------------------------------------------------------
(* The path functions, called directly and through installItems *)

GetCanonicalPathCall(type, id, scope, root) ==
  /\ last' = [op |-> "getCanonicalPath", type |-> type, id |-> id, scope |-> scope,
              root |-> root, result |-> getCanonicalPath(type, id, scope, root)]
  /\ calls' = calls + 1
  /\ UNCHANGED <<dirs, files, locks, readonly, templates, bridges, procs>>

GetLockFilePathCall(scope, root) ==
  /\ last' = [op |-> "getLockFilePath", scope |-> scope, root |-> root,
              result |-> getLockFilePath(scope, root)]
  /\ calls' = calls + 1
  /\ UNCHANGED <<dirs, files, locks, readonly, templates, bridges, procs>>

----------------------------------------------------------------------------
(* agents.ts: the assistant registry *)

\* id, isUniversal (false when the entry does not set it) and the
\* project-relative paths of every registered assistant, in registry order;
\* paths maps the content types the assistant supports.
assistants ==
  <<
     [id |-> "claude", isUniversal |-> FALSE,
      paths |-> [skills |-> <<".claude", "skills">>, agents |-> <<".claude", "agents">>, commands |-> <<".claude", "commands">>]],
     [id |-> "copilot", isUniversal |-> TRUE,
      paths |-> [skills |-> <<".ai", "skills">>, agents |-> <<".github", "agents">>, prompts |-> <<".github", "prompts">>]],
     [id |-> "cursor", isUniversal |-> FALSE,
      paths |-> [skills |-> <<".cursor", "skills">>, rules |-> <<".cursor", "rules">>]],
     [id |-> "windsurf", isUniversal |-> FALSE,
      paths |-> [skills |-> <<".windsurf", "skills">>, rules |-> <<".windsurf", "rules">>]],
     [id |-> "gemini", isUniversal |-> TRUE,
      paths |-> [skills |-> <<".ai", "skills">>]],
     [id |-> "antigravity", isUniversal |-> TRUE,
      paths |-> [skills |-> <<".ai", "skills">>, agents |-> <<".ai", "agents">>]],
     [id |-> "codex", isUniversal |-> TRUE,
      paths |-> [skills |-> <<".ai", "skills">>, agents |-> <<".ai", "agents">>]],
     [id |-> "amp", isUniversal |-> TRUE,
      paths |-> [skills |-> <<".ai", "skills">>]],
     [id |-> "cline", isUniversal |-> FALSE,
      paths |-> [skills |-> <<".cline", "skills">>, rules |-> <<".cline", "rules">>]],
     [id |-> "roo", isUniversal |-> FALSE,
      paths |-> [skills |-> <<".roo", "skills">>, rules |-> <<".roo", "rules">>]],
     [id |-> "continue", isUniversal |-> FALSE,
      paths |-> [skills |-> <<".continue", "skills">>, rules |-> <<".continue", "rules">>]],
     [id |-> "goose", isUniversal |-> FALSE,
      paths |-> [skills |-> <<".goose", "skills">>]],
     [id |-> "opencode", isUniversal |-> TRUE,
      paths |-> [skills |-> <<".ai", "skills">>]],
     [id |-> "kiro", isUniversal |-> FALSE,
      paths |-> [skills |-> <<".kiro", "skills">>, rules |-> <<".kiro", "rules">>]],
     [id |-> "trae", isUniversal |-> FALSE,
      paths |-> [skills |-> <<".trae", "skills">>, rules |-> <<".trae", "rules">>]],
     [id |-> "augment", isUniversal |-> FALSE,
      paths |-> [skills |-> <<".augment", "skills">>]],
     [id |-> "droid", isUniversal |-> FALSE,
      paths |-> [skills |-> <<".factory", "skills">>]],
     [id |-> "kilo", isUniversal |-> FALSE,
      paths |-> [skills |-> <<".kilocode", "skills">>]]
  >>

\* getAssistantsForContentType: the assistants whose paths has the type.
GetAssistantsForContentTypeCall(contentType) ==
  /\ last' = [op |-> "getAssistantsForContentType", type |-> contentType,
              result |-> SelectSeq(assistants,
                                   LAMBDA a : contentType \in DOMAIN a.paths)]
  /\ calls' = calls + 1
  /\ UNCHANGED <<dirs, files, locks, readonly, templates, bridges, procs>>

\* Project roots as callers give them: omitted, absolute, the working
\* directory itself, and relative to it.
PathRoots == {NoRoot, Repo, Cwd, <<"proj">>}

NextPath ==
  \/ \E type \in ContentTypes, scope \in Scopes, root \in PathRoots :
       calls < MaxCalls /\ GetCanonicalPathCall(type, "foo", scope, root)
  \/ \E scope \in Scopes, root \in Roots :
       calls < MaxCalls /\ GetLockFilePathCall(scope, root)
  \/ \E a \in { <<"claude">>, <<"cursor">> }, t \in InstallTargets :
       calls < MaxCalls /\ InstallItemsCall(<<Foo>>, a, t.scope, "copy", t.root)
  \/ \E type \in ContentTypes :
       calls < MaxCalls /\ GetAssistantsForContentTypeCall(type)

SpecPath == Init /\ [][NextPath]_vars

\* C8: for project scope and a given project root the canonical path is
\* <projectRoot>/.ai/<type>/<id>; no assistant enters the computation, and
\* installItems puts a project-scope item there whichever assistants it is
\* called with.
C8_ProjectCanonicalPath ==
  /\ (last.op = "getCanonicalPath" /\ last.scope = "project" /\ last.root # NoRoot)
       => last.result = last.root \o <<".ai", last.type, last.id>>
  /\ (last.op = "installItems" /\ last.scope = "project" /\ ~last.rejected)
       => \A i \in 1..Len(last.items) :
            last.summary.results[i].success
              => /\ last.summary.results[i].path =
                      RootOf(last.root) \o <<".ai", last.items[i].type, last.items[i].id>>
                 /\ Append(RootOf(last.root) \o <<".ai", last.items[i].type, last.items[i].id>>,
                           getContentFileName(last.items[i].type)) \in DOMAIN files

\* C8 witness: getCanonicalPath("skills", "foo", "project", "/repo") was
\* called and gave /repo/.ai/skills/foo.
C8_Witness ==
  /\ last.op = "getCanonicalPath"
  /\ last.scope = "project"
  /\ last.type = "skills"
  /\ last.root = Repo
  /\ last.result = <<"/", "repo", ".ai", "skills", "foo">>

\* C9 (as claimed): for global scope the canonical path is
\* <home>/.ai/<type>/<id> whether or not a project root is given, so that a
\* global install puts the item under the directory of the global lock file.
C9_GlobalCanonicalPath ==
  /\ (last.op = "getCanonicalPath" /\ last.scope = "global")
       => last.result = Home \o <<".ai", last.type, last.id>>
  /\ (last.op = "installItems" /\ last.scope = "global" /\ ~last.rejected)
       => \A i \in 1..Len(last.items) :
            last.summary.results[i].success
              => IsPrefix(Dirname(getLockFilePath("global", last.root)),
                          Resolve(last.summary.results[i].path))

----------------------------------------------------------------------------
(* Separate invocations working on one lock file at the same time *)

\* Two updateLockFile invocations and one readLockFile, all on the project
\* lock file of /repo.  Each await is a step: the read, the open of
\* writeFile (flag "w" truncates the file), and the write of the text.
Writers == {"update1", "update2"}
Reader == "reader"

ConcScope == "project"
ConcRoot == Repo
ConcPath == getLockFilePath(ConcScope, ConcRoot)

FooForCursor == [FooForClaude EXCEPT !.assistants = <<"cursor">>]
BarForClaude == [BarForCursor EXCEPT !.assistants = <<"claude">>]

InitConc ==
  /\ dirs = InitDirs \cup Ancestors(Dirname(ConcPath))
  /\ files = NoFiles
  /\ locks = [p \in LockPaths |->
                IF p = ConcPath THEN JsonStringify(DocWith(BarForCursor)) ELSE NoFile]
  /\ readonly = {}
  /\ templates = [k \in Keys |-> TemplateDir(k[1], ContentA)]
  /\ bridges = NoBridges
  /\ \E i1 \in {FooForClaude, BarForClaude}, i2 \in {FooForCursor, BarForClaude} :
       procs = [p \in Writers \cup {Reader} |->
                  [op |-> IF p = Reader THEN "readLockFile" ELSE "updateLockFile",
                   pc |-> "start",
                   item |-> IF p = "update2" THEN i2 ELSE i1,
                   lockFile |-> EmptyLockFile,
                   doc |-> EmptyLockFile]]
  /\ calls = 0
  /\ last = [op |-> "init"]

\* await readLockFile(...): readFile and JSON.parse of what is on disk now.
ProcRead(p) ==
  /\ procs[p].pc = "start"
  /\ procs' = [procs EXCEPT
       ![p].lockFile = readLockFile(locks, ConcScope, ConcRoot),
       ![p].doc = Modified(readLockFile(locks, ConcScope, ConcRoot), procs[p].item),
       ![p].pc = IF p = Reader THEN "done" ELSE "open"]
  /\ UNCHANGED <<dirs, files, locks, readonly, templates, bridges, calls, last>>

\* writeFile opens the lock file for writing, which empties it.
ProcOpen(p) ==
  /\ procs[p].pc = "open"
  /\ locks' = [locks EXCEPT ![ConcPath] = Truncated(procs[p].doc)]
  /\ procs' = [procs EXCEPT ![p].pc = "write"]
  /\ UNCHANGED <<dirs, files, readonly, templates, bridges, calls, last>>

\* What the file holds once p has written its text from offset 0: the text,
\* or, when another writer's longer text is already there, p's text
\* followed by the rest of the other one.
WriteOutcomes(p) ==
  IF locks[ConcPath].kind = "json" /\ locks[ConcPath].value # procs[p].doc
    THEN {JsonStringify(procs[p].doc), Garbage}
  ELSE {JsonStringify(procs[p].doc)}

ProcWrite(p) ==
  /\ procs[p].pc = "write"
  /\ \E text \in WriteOutcomes(p) : locks' = [locks EXCEPT ![ConcPath] = text]
  /\ procs' = [procs EXCEPT ![p].pc = "done"]
  /\ UNCHANGED <<dirs, files, readonly, templates, bridges, calls, last>>

NextConc ==
  \/ \E p \in Writers \cup {Reader} : ProcRead(p)
  \/ \E p \in Writers : ProcOpen(p)
  \/ \E p \in Writers : ProcWrite(p)

SpecConc == InitConc /\ [][NextConc]_vars

\* C10 (as claimed): a readLockFile running while the lock file is written
\* gets the complete previous document or the complete new one: the
\* document the file held at the start, or one a writer has written.
C10_ReaderSeesCompleteDocument ==
  procs[Reader].pc = "done"
    => procs[Reader].lockFile \in
         {DocWith(BarForCursor)}
           \cup { procs[w].doc : w \in { x \in Writers : procs[x].pc \in {"write", "done"} } }

----------------------------------------------------------------------------
(* lock.ts: the two scopes, preferences, last check, clearing *)

\* lock.ts getPreferences: the preferences of the lock file as read.
getPreferences(lk, scope, projectRoot) == readLockFile(lk, scope, projectRoot).preferences

SavePreferencesCallReplaces(preferences, scope, root) ==
  /\ LET lockFile == readLockFile(locks, scope, root)
         r == IF lockFile.shape = "null" THEN [threw |-> TRUE, w |-> World]
              ELSE writeLockFile(World, [lockFile EXCEPT !.preferences = <<preferences>>],
                                 scope, root)
     IN /\ Apply(r.w)
        /\ last' = [op |-> "savePreferences", preferences |-> preferences,
                    scope |-> scope, root |-> root, threw |-> r.threw,
                    lockFile |-> lockFile]
  /\ calls' = calls + 1
  /\ UNCHANGED <<readonly, templates, bridges, procs>>

\* savePreferences: preferences are a map from the preference keys that
\* are set to their values; { ...lockFile.preferences, ...preferences }.
SavePreferencesCall(preferences, scope, root) ==
  /\ LET lockFile == readLockFile(locks, scope, root)
         old == IF lockFile.preferences = <<>> THEN [k \in {} |-> ""]
                ELSE lockFile.preferences[1]
         merged == [k \in DOMAIN old \cup DOMAIN preferences |->
                      IF k \in DOMAIN preferences THEN preferences[k] ELSE old[k]]
         r == IF lockFile.shape = "null" THEN [threw |-> TRUE, w |-> World]
              ELSE writeLockFile(World, [lockFile EXCEPT !.preferences = <<merged>>],
                                 scope, root)
     IN /\ Apply(r.w)
        /\ last' = [op |-> "savePreferences", preferences |-> preferences,
                    scope |-> scope, root |-> root, threw |-> r.threw,
                    lockFile |-> lockFile]
  /\ calls' = calls + 1
  /\ UNCHANGED <<readonly, templates, bridges, procs>>

\* updateLastCheck: lastUpdateCheck = new Date().toISOString().
UpdateLastCheckCall(scope, root) ==
  /\ LET lockFile == readLockFile(locks, scope, root)
         r == IF lockFile.shape = "null" THEN [threw |-> TRUE, w |-> World]
              ELSE writeLockFile(World, [lockFile EXCEPT !.lastUpdateCheck = <<calls + 1>>],
                                 scope, root)
     IN /\ Apply(r.w)
        /\ last' = [op |-> "updateLastCheck", scope |-> scope, root |-> root,
                    threw |-> r.threw, lockFile |-> lockFile]
  /\ calls' = calls + 1
  /\ UNCHANGED <<readonly, templates, bridges, procs>>

\* clearLockFile: unlink, a missing file is fine.
ClearLockFileCall(scope, root) ==
  /\ locks' = [locks EXCEPT ![getLockFilePath(scope, root)] = NoFile]
  /\ last' = [op |-> "clearLockFile", scope |-> scope, root |-> root]
  /\ calls' = calls + 1
  /\ UNCHANGED <<dirs, files, readonly, templates, bridges, procs>>

\* The lock files addressed: a project checked out at /repo, a project
\* root that is the user's home directory, and the global scope.
ScopeTargets ==
  { [scope |-> "project", root |-> Repo], [scope |-> "project", root |-> Home],
    [scope |-> "global", root |-> NoRoot] }

NextScope ==
  \/ \E t \in ScopeTargets :
       \E item \in { x \in LockItems(t.scope) :
                       x.source = "builtin" /\ Len(x.assistants) = 1 } :
         calls < MaxCalls /\ UpdateLockFileCall(item, t.scope, t.root)
  \/ \E i \in Items, a \in AssistantIds, t \in ScopeTargets :
       calls < MaxCalls /\ RemoveFromLockFileCall(i.type, i.id, a, t.scope, t.root)
  \/ \E t \in ScopeTargets :
       \E preferences \in { [k \in {"defaultScope"} |-> "global"],
                            [k \in {"defaultMethod"} |-> "copy"] } :
         calls < MaxCalls /\ SavePreferencesCall(preferences, t.scope, t.root)
  \/ \E t \in ScopeTargets : calls < MaxCalls /\ UpdateLastCheckCall(t.scope, t.root)
  \/ \E t \in ScopeTargets : calls < MaxCalls /\ ClearLockFileCall(t.scope, t.root)
  \/ \E t \in ScopeTargets, a \in { <<"claude">>, <<"cursor", "cursor">> },
        method \in {"symlink", "copy"} :
       calls < MaxCalls /\ InstallItemsCall(<<Foo>>, a, t.scope, method, t.root)

SpecScope == Init /\ [][NextScope]_vars

\* C11 (as claimed): the project-scope and the global-scope lock file are
\* independent for every project root: a mutation addressed to one scope
\* (updateLockFile, removeFromLockFile, savePreferences, updateLastCheck,
\* clearLockFile) leaves what readLockFile returns for the other scope, at
\* any project root, unchanged.
C11_ScopesIndependent ==
  [][ last'.op \in {"updateLockFile", "removeFromLockFile", "savePreferences",
                    "updateLastCheck", "clearLockFile"}
      => \A t \in ScopeTargets :
           t.scope # last'.scope
             => readLockFile(locks', t.scope, t.root) = readLockFile(locks, t.scope, t.root)
    ]_vars

----------------------------------------------------------------------------
(* installer.ts: uninstallItem *)


uninstallItemKeepDir(w, item, scope, projectRoot) == [result |-> TRUE, w |-> w]

\* uninstallItem: rm(canonicalPath, { recursive: true, force: true }) inside
\* try/catch.  With force, rm of a path that does not exist succeeds; rm of
\* an existing directory that may not be removed (it is in readonly) throws.
\* Returns [result, w].
uninstallItem(w, item, scope, projectRoot) ==
  LET canonicalPath == Resolve(getCanonicalPath(item.type, item.id, scope, projectRoot))
  IN IF canonicalPath \in w.dirs /\ canonicalPath \in readonly
       THEN [result |-> FALSE, w |-> w]
     ELSE [result |-> TRUE,
           w |-> [w EXCEPT
                    !.dirs = { d \in @ : ~IsPrefix(canonicalPath, d) },
                    !.files = [f \in { g \in DOMAIN @ : ~IsPrefix(canonicalPath, g) } |-> @[f]]]]

\* catalog.ts isItemInstalled: access() of the canonical path succeeds; the
\* assistant argument is not used.
isItemInstalled(w, item, assistant, scope, projectRoot) ==
  LET canonicalPath == Resolve(getCanonicalPath(item.type, item.id, scope, projectRoot))
  IN canonicalPath \in w.dirs \/ canonicalPath \in DOMAIN w.files

\* lock.ts isInstalled: the key is in the installed map of the lock file.
isInstalled(lk, type, id, scope, projectRoot) ==
  getItemKey(type, id) \in DOMAIN readLockFile(lk, scope, projectRoot).installed

UninstallItemCall(item, assistant, scope, root) ==
  /\ LET r == uninstallItem(World, item, scope, RootOf(root))
     IN /\ Apply(r.w)
        /\ last' = [op |-> "uninstallItem", item |-> item, assistant |-> assistant,
                    scope |-> scope, root |-> root, result |-> r.result,
                    existed |-> InstalledDir(item, scope, root) \in dirs]
  /\ calls' = calls + 1
  /\ UNCHANGED <<readonly, templates, bridges, procs>>

NextUninstall ==
  \/ \E a \in { <<"claude">>, <<"claude", "cursor">> }, t \in InstallTargets :
       calls < MaxSteps /\ InstallItemsCall(<<Foo>>, a, t.scope, "copy", t.root)
  \/ \E i \in Items, a \in AssistantIds, t \in InstallTargets :
       calls < MaxSteps /\ UninstallItemCall(i, a, t.scope, t.root)
  \/ \E t \in InstallTargets :
       calls < MaxSteps /\ Chmod(InstalledDir(Foo, t.scope, t.root))

SpecUninstall == Init /\ [][NextUninstall]_vars

\* C12 (as claimed): uninstallItem returns true only when it removed an
\* existing canonical directory; it returns false when the directory was
\* already absent, as it does when the removal fails.
C12_UninstallReportsAbsent ==
  last.op = "uninstallItem"
    => (last.result
          <=> (last.existed /\ InstalledDir(last.item, last.scope, last.root) \notin dirs))

----------------------------------------------------------------------------
(* catalog.ts: validateFrontmatter *)

\* A frontmatter object maps the keys that are present to their values; a
\* value is [type |-> "string", value |-> a string] or [type |-> "object",
\* value |-> a tuple of strings] (an array).  name, description and category
\* are strings when present, as the casts in the code declare.  An issue is
\* [field, severity, message], message being the key phrase of the text.

DescriptionMaxLength == 1024

KebabNoHyphen(name) ==
  /\ name # ""
  /\ \A i \in 1..Len(name) :
       \E j \in 1..36 : SubSeq(name, i, i) = SubSeq("abcdefghijklmnopqrstuvwxyz0123456789", j, j)

\* /^[a-z0-9]+(-[a-z0-9]+)*$/
KEBAB_CASE_RE(name) ==
  /\ name # ""
  /\ \A i \in 1..Len(name) :
       \E j \in 1..37 : SubSeq(name, i, i) = SubSeq("abcdefghijklmnopqrstuvwxyz0123456789-", j, j)
  /\ Head(name) # "-"
  /\ SubSeq(name, Len(name), Len(name)) # "-"
  /\ \A i \in 1..(Len(name) - 1) : SubSeq(name, i, i + 1) # "--"

XmlOpenBracketOnly(value) ==
  \E i \in 1..Len(value) : SubSeq(value, i, i) = "<"

\* /[<>]/
XML_BRACKETS_RE(value) ==
  \E i \in 1..Len(value) : SubSeq(value, i, i) \in {"<", ">"}

\* catalog.ts 144-172: the name checks.  !name holds of a missing and of
\* an empty name.
nameIssues(frontmatter, folderId) ==
  LET name == IF "name" \in DOMAIN frontmatter THEN frontmatter["name"].value ELSE ""
      startsWith(p) == Len(name) >= Len(p) /\ SubSeq(name, 1, Len(p)) = p
  IN IF name = ""
       THEN << [field |-> "name", severity |-> "error", message |-> "Missing required field"] >>
     ELSE (IF ~KEBAB_CASE_RE(name)
             THEN << [field |-> "name", severity |-> "error", message |-> "kebab-case"] >>
           ELSE <<>>)
          \o (IF \E p \in {"claude", "anthropic"} : startsWith(p)
                THEN << [field |-> "name", severity |-> "error", message |-> "reserved prefix"] >>
              ELSE <<>>)
          \o (IF folderId # "" /\ name # folderId
                THEN << [field |-> "name", severity |-> "warning", message |-> "does not match folder name"] >>
              ELSE <<>>)

\* catalog.ts 174-219: the description checks; the trigger phrases are
\* looked for in description.toLowerCase().
descriptionIssues(frontmatter) ==
  LET description == IF "description" \in DOMAIN frontmatter
                       THEN frontmatter["description"].value ELSE ""
      upper == "ABCDEFGHIJKLMNOPQRSTUVWXYZ"
      lower(c) == IF c \in { SubSeq(upper, j, j) : j \in 1..26 }
                    THEN LET j == CHOOSE j \in 1..26 : SubSeq(upper, j, j) = c
                         IN SubSeq("abcdefghijklmnopqrstuvwxyz", j, j)
                  ELSE c
      lowerDesc == [i \in 1..Len(description) |-> lower(SubSeq(description, i, i))]
      includes(phrase) ==
        \E i \in 1..(Len(description) - Len(phrase) + 1) :
          \A j \in 1..Len(phrase) : lowerDesc[i + j - 1] = SubSeq(phrase, j, j)
      hasTrigger == \E phrase \in {"use when", "use for", "use if", "trigger",
                                   "activate when", "asks about", "asks to", "asks for"} :
                      includes(phrase)
  IN IF description = ""
       THEN << [field |-> "description", severity |-> "error", message |-> "Missing required field"] >>
     ELSE (IF Len(description) > DescriptionMaxLength
             THEN << [field |-> "description", severity |-> "error", message |-> "exceeds 1024"] >>
           ELSE <<>>)
          \o (IF XML_BRACKETS_RE(description)
                THEN << [field |-> "description", severity |-> "error", message |-> "XML angle brackets"] >>
              ELSE <<>>)
          \o (IF ~hasTrigger
                THEN << [field |-> "description", severity |-> "warning", message |-> "trigger conditions"] >>
              ELSE <<>>)

\* catalog.ts 221-231: every other string value, in the order of the keys
\* (Object.entries: the order the keys were written in).
bracketIssues(frontmatter) ==
  LET keys == SelectSeq(<<"name", "description", "category", "tags", "author">>,
                        LAMBDA k : /\ k \in DOMAIN frontmatter
                                   /\ k # "description"
                                   /\ frontmatter[k].type = "string"
                                   /\ XML_BRACKETS_RE(frontmatter[k].value))
  IN [i \in 1..Len(keys) |->
        [field |-> keys[i], severity |-> "error", message |-> "XML angle brackets"]]

recommendedIssuesAsErrors(frontmatter) ==
  (IF "category" \notin DOMAIN frontmatter
     THEN << [field |-> "category", severity |-> "error", message |-> "Missing recommended field"] >>
   ELSE <<>>)
  \o (IF "tags" \notin DOMAIN frontmatter
        THEN << [field |-> "tags", severity |-> "error", message |-> "Missing recommended field"] >>
      ELSE <<>>)

\* catalog.ts 233-253: !frontmatter.category, !frontmatter.tags: missing,
\* or the empty string (an array, even an empty one, is truthy).
recommendedIssues(frontmatter) ==
  LET falsy(k) == k \notin DOMAIN frontmatter
                    \/ (frontmatter[k].type = "string" /\ frontmatter[k].value = "")
  IN (IF falsy("category")
        THEN << [field |-> "category", severity |-> "warning", message |-> "Missing recommended field"] >>
      ELSE <<>>)
     \o (IF falsy("tags")
           THEN << [field |-> "tags", severity |-> "warning", message |-> "Missing recommended field"] >>
         ELSE <<>>)

validateFrontmatter(frontmatter, folderId) ==
  LET issues == nameIssues(frontmatter, folderId) \o descriptionIssues(frontmatter)
                  \o bracketIssues(frontmatter) \o recommendedIssues(frontmatter)
  IN [valid |-> ~(\E i \in 1..Len(issues) : issues[i].severity = "error"),
      issues |-> issues]

----------------------------------------------------------------------------
(* catalog.ts: parseFrontmatter *)

\* content.match(/^---\n([\s\S]*?)\n---\n([\s\S]*)$/): the text opens with
\* "---\n" and the block ends at the first "\n---\n" after it.  Each line of
\* the block with a colon after its first character gives a key and a
\* value: quotes around the value are removed, then [a, b] becomes an
\* array; a later line with the same key replaces an earlier one.
parseFrontmatter(content) ==
  LET n == Len(content)
      closes == { k \in 5..(n - 4) : SubSeq(content, k, k + 4) = "\n---\n" }
      RECURSIVE split(_, _)
      split(x, sep) ==
        IF \A i \in 1..Len(x) : SubSeq(x, i, i) # sep THEN <<x>>
        ELSE LET i == CHOOSE i \in 1..Len(x) :
                        /\ SubSeq(x, i, i) = sep
                        /\ \A j \in 1..(i - 1) : SubSeq(x, j, j) # sep
             IN <<SubSeq(x, 1, i - 1)>> \o split(SubSeq(x, i + 1, Len(x)), sep)
      black(x) == { i \in 1..Len(x) : SubSeq(x, i, i) \notin {" ", "\t", "\r", "\n"} }
      trim(x) == IF black(x) = {} THEN ""
                 ELSE SubSeq(x, CHOOSE i \in black(x) : \A j \in black(x) : i <= j,
                                CHOOSE i \in black(x) : \A j \in black(x) : i >= j)
      starts(x, c) == Len(x) >= 1 /\ SubSeq(x, 1, 1) = c
      ends(x, c) == Len(x) >= 1 /\ SubSeq(x, Len(x), Len(x)) = c
      inner(x) == SubSeq(x, 2, Len(x) - 1)
      unquoted(x) == IF starts(x, "\"") /\ ends(x, "\"") THEN inner(x) ELSE x
      noLead(x) == IF starts(x, "\"") \/ starts(x, "'") THEN SubSeq(x, 2, Len(x)) ELSE x
      noTrail(x) == IF ends(x, "\"") \/ ends(x, "'") THEN SubSeq(x, 1, Len(x) - 1) ELSE x
      array(x) == LET parts == split(inner(x), ",")
                  IN [i \in 1..Len(parts) |-> noTrail(noLead(trim(parts[i])))]
      valueOf(x) == IF starts(unquoted(x), "[") /\ ends(unquoted(x), "]")
                      THEN [type |-> "object", value |-> array(unquoted(x))]
                    ELSE [type |-> "string", value |-> unquoted(x)]
      colon(line) == CHOOSE i \in 1..Len(line) :
                       /\ SubSeq(line, i, i) = ":"
                       /\ \A j \in 1..(i - 1) : SubSeq(line, j, j) # ":"
      keyed(line) == /\ \E i \in 2..Len(line) : SubSeq(line, i, i) = ":"
                     /\ SubSeq(line, 1, 1) # ":"
      keyOf(line) == trim(SubSeq(line, 1, colon(line) - 1))
  IN IF n < 4 \/ SubSeq(content, 1, 4) # "---\n" \/ closes = {}
       THEN [frontmatter |-> [k \in {} |-> ""], body |-> content]
     ELSE LET k == CHOOSE k \in closes : \A j \in closes : k <= j
              lines == split(SubSeq(content, 5, k - 1), "\n")
              pairs == { i \in 1..Len(lines) : keyed(lines[i]) }
              final(key) == CHOOSE i \in pairs :
                              /\ keyOf(lines[i]) = key
                              /\ \A j \in pairs : keyOf(lines[j]) = key => j <= i
          IN [frontmatter |->
                [key \in { keyOf(lines[i]) : i \in pairs } |->
                   valueOf(trim(SubSeq(lines[final(key)], colon(lines[final(key)]) + 1,
                                       Len(lines[final(key)]))))],
              body |-> SubSeq(content, k + 5, n)]

----------------------------------------------------------------------------
(* The catalog functions applied to inputs drawn by the initial state *)

\* The frontmatter objects validateFrontmatter is called with: every
\* combination of a missing, empty, valid and offending value of each key,
\* and descriptions of exactly and of one more than the maximal length.
FrontmatterInputs ==
  LET RECURSIVE Repeat(_, _)
      \* "x".repeat(n)
      Repeat(x, n) == IF n = 0 THEN ""
                      ELSE IF n % 2 = 1 THEN x \o Repeat(x, n - 1)
                      ELSE Repeat(x \o x, n \div 2)
      str(v) == << [type |-> "string", value |-> v] >>
      arr(v) == << [type |-> "object", value |-> v] >>
      names == {<<>>} \cup { str(v) : v \in {"", "my-skill", "My Skill",
                                             "claude-helper", "a<b", "-a"} }
      picks == [ name : names,
                 description : {<<>>} \cup { str(v) : v \in
                     {"", "Does X. Use when Y.", "Does something useful.",
                      "Does <x>. Use when asked."} },
                 category : {<<>>, str("frontend"), str("")},
                 tags : {<<>>, arr(<<"a", "b">>)},
                 author : {<<>>, str("me"), str("a > b"), arr(<<"<me>">>)} ]
              \cup
              [ name : names,
                description : { str(Repeat("x", DescriptionMaxLength)),
                                str(Repeat("x", DescriptionMaxLength + 1)) },
                category : {<<>>, str("frontend")},
                tags : {<<>>},
                author : {<<>>} ]
  IN { [k \in { x \in DOMAIN p : p[x] # <<>> } |-> p[k][1]] : p \in picks }

\* The texts of content files: with and without a frontmatter block, the
\* closing delimiter as the last line of the text, an empty block, quoted
\* and array values, a repeated key, and lines without a key.
ContentInputs ==
  { "---\nname: test\ndescription: Test description\n---\n\n# Content",
    "# No Frontmatter\n\nJust content",
    "",
    "name: test\n---\nbody",
    "---\nname: test\nbody",
    "---\nname: test\n---",
    "---\n---\nbody",
    "---\n\n---\nbody",
    "---\nname: \"my-skill\"\ntags: [a, \"b\" , 'c']\nurl: http://x\n---\nbody\n---\nmore\n",
    "---\nname: one\n: skipped\nno colon\nname:  two \n---\n",
    "---\nname: [x]\ndescription: Array name. Use when Y.\n---\nbody" }

\* The template directories of a catalog, in the states a directory of the
\* template root can be in: a content file with a frontmatter block, one
\* without, one whose name is an array, one whose closing delimiter ends the
\* file, a directory without the content file, and no directory.
TemplateRoots ==
  LET skills == [ { getItemKey("skills", id) : id \in {"alpha", "beta"} } ->
                    { TemplateMainOnly("skills", c) :
                        c \in {"---\nname: zeta\ndescription: Z. Use when Y.\ntags: [a, b]\ncategory: frontend\n---\nbody",
                               "# No Frontmatter\n\nJust content",
                               "---\nname: [x]\n---\nbody",
                               "---\nname: test\n---"} }
                    \cup {TemplateNoContentFile, TemplateMissing} ]
      rules == { TemplateMainOnly("rules", "---\nname: eta\ntags: none\n---\nbody"),
                 TemplateMissing }
  IN { [k \in DOMAIN f \cup {getItemKey("rules", "alpha")} |->
          IF k \in DOMAIN f THEN f[k] ELSE r] : f \in skills, r \in rules }

InitCatalog ==
  /\ dirs = InitDirs
  /\ files = NoFiles
  /\ locks = [p \in LockPaths |-> NoFile]
  /\ readonly = {}
  /\ bridges = NoBridges
  /\ procs = NoProcs
  /\ calls = 0
  /\ \/ /\ templates = [k \in Keys |-> TemplateDir(k[1], ContentA)]
        /\ last \in { [op |-> "frontmatter", frontmatter |-> f, folderId |-> id] :
                        f \in FrontmatterInputs,
                        id \in {"", "my-skill", "different-folder"} }
                    \cup { [op |-> "content", content |-> c] : c \in ContentInputs }
     \/ /\ templates \in TemplateRoots
        /\ last = [op |-> "templates"]

ValidateFrontmatterCall ==
  /\ last.op = "frontmatter"
  /\ last' = [op |-> "validateFrontmatter", frontmatter |-> last.frontmatter,
              folderId |-> last.folderId,
              result |-> validateFrontmatter(last.frontmatter, last.folderId)]
  /\ calls' = calls + 1
  /\ UNCHANGED <<dirs, files, locks, readonly, templates, bridges, procs>>

ParseFrontmatterCall ==
  /\ last.op = "content"
  /\ last' = [op |-> "parseFrontmatter", content |-> last.content,
              result |-> parseFrontmatter(last.content)]
  /\ calls' = calls + 1
  /\ UNCHANGED <<dirs, files, locks, readonly, templates, bridges, procs>>

\* null is <<>>, an item is <<item>>.  readFile throws when the directory or
\* the content file is missing, and that is the only failure that is caught:
\* parseFrontmatter returns an empty mapping rather than throwing.
loadCatalogItem(tpl, type, id) ==
  LET key == getItemKey(type, id)
      fileName == getContentFileName(type)
  IN IF \/ key \notin DOMAIN tpl
        \/ ~tpl[key].exists
        \/ fileName \notin DOMAIN tpl[key].entries
       THEN <<>>
       ELSE LET content == tpl[key].entries[fileName]
                truthy(frontmatter, k) ==
                  /\ k \in DOMAIN frontmatter
                  /\ frontmatter[k] # [type |-> "string", value |-> ""]
                opt(frontmatter, k) ==
                  IF k \in DOMAIN frontmatter THEN <<frontmatter[k]>> ELSE <<>>
                item(frontmatter) ==
                  [id |-> id,
                   name |-> IF truthy(frontmatter, "name") THEN frontmatter["name"]
                            ELSE [type |-> "string", value |-> id],
                   description |-> IF truthy(frontmatter, "description")
                                     THEN frontmatter["description"]
                                     ELSE [type |-> "string", value |-> ""],
                   type |-> type,
                   category |-> opt(frontmatter, "category"),
                   tags |-> opt(frontmatter, "tags"),
                   path |-> <<type, id>>,
                   content |-> content]
            IN << CHOOSE x \in { item(frontmatter) :
                                   frontmatter \in {parseFrontmatter(content).frontmatter} } :
                    TRUE >>

\* entries is the order in which readdir lists the directories.  The result
\* is the set of outcomes the sort can have: a.name.localeCompare(b.name)
\* throws when a.name is an array, and which element of a pair the sort
\* passes as a is left to the implementation, so with two or more items the
\* call throws when every name is an array, may throw when some name is, and
\* otherwise returns the items in name order (the sort is stable; an array
\* passed as b is converted to a string).
loadContentType(tpl, type, entries) ==
  LET RECURSIVE load(_)
      load(i) == IF i > Len(entries) THEN <<>>
                 ELSE loadCatalogItem(tpl, type, entries[i]) \o load(i + 1)
      RECURSIVE join(_)
      join(v) == IF v = <<>> THEN ""
                 ELSE IF Len(v) = 1 THEN v[1] ELSE v[1] \o "," \o join(Tail(v))
      str(n) == IF n.type = "string" THEN n.value ELSE join(n.value)
      rank(ch) == CHOOSE r \in 1..26 : SubSeq("abcdefghijklmnopqrstuvwxyz", r, r) = ch
      RECURSIVE localeCompare(_, _)
      localeCompare(a, b) ==
        IF a = "" THEN (IF b = "" THEN 0 ELSE 0 - 1)
        ELSE IF b = "" THEN 1
        ELSE IF SubSeq(a, 1, 1) = SubSeq(b, 1, 1)
               THEN localeCompare(SubSeq(a, 2, Len(a)), SubSeq(b, 2, Len(b)))
        ELSE IF rank(SubSeq(a, 1, 1)) < rank(SubSeq(b, 1, 1)) THEN 0 - 1 ELSE 1
      RECURSIVE insert(_, _)
      insert(sorted, x) ==
        IF sorted = <<>> THEN <<x>>
        ELSE IF localeCompare(str(sorted[Len(sorted)].name), str(x.name)) <= 0
               THEN Append(sorted, x)
        ELSE Append(insert(SubSeq(sorted, 1, Len(sorted) - 1), x), sorted[Len(sorted)])
      RECURSIVE sort(_, _)
      sort(done, rest) == IF rest = <<>> THEN done
                          ELSE sort(insert(done, Head(rest)), Tail(rest))
      typeDir == \E k \in DOMAIN tpl : k[1] = type /\ tpl[k].exists
      arrays(items) == { i \in 1..Len(items) : items[i].name.type = "object" }
      sorted(items) == [threw |-> FALSE, items |-> sort(<<>>, items)]
      thrown == [threw |-> TRUE, items |-> <<>>]
      outcomes(items) ==
        IF Len(items) < 2 \/ arrays(items) = {} THEN {sorted(items)}
        ELSE IF arrays(items) = 1..Len(items) THEN {thrown}
        ELSE {sorted(items), thrown}
  IN IF ~typeDir THEN { [threw |-> FALSE, items |-> <<>>] }
     ELSE UNION { outcomes(items) : items \in {load(1)} }

LoadContentTypeCall(type, entries) ==
  /\ last.op = "templates"
  /\ \E r \in loadContentType(templates, type, entries) :
       last' = [op |-> "loadContentType", type |-> type, result |-> r]
  /\ calls' = calls + 1
  /\ UNCHANGED <<dirs, files, locks, readonly, templates, bridges, procs>>

\* loadCatalog: the five loads run concurrently and each stores its list in
\* the Map when it completes, so the Map's iteration order is the order of
\* completion.  A type without a directory returns [] without any I/O and
\* completes first, in the order of the types array; completion is the order
\* in which the other loads finish.  The result is the set of outcomes: the
\* call rejects when a load throws.
loadCatalog(tpl, entries, completion) ==
  LET types == <<"skills", "agents", "commands", "rules", "prompts">>
      hasDir == { t \in Range(types) : \E k \in DOMAIN tpl : k[1] = t /\ tpl[k].exists }
      order == SelectSeq(types, LAMBDA t : t \notin hasDir) \o completion
      listed(loads, t) == IF t \in hasDir THEN (CHOOSE r \in loads[t] : ~r.threw).items
                          ELSE <<>>
      outcomes(loads) ==
        (IF \E t \in hasDir : \E r \in loads[t] : r.threw
           THEN { [threw |-> TRUE, catalog |-> <<>>] } ELSE {})
        \cup
        (IF \A t \in hasDir : \E r \in loads[t] : ~r.threw
           THEN { [threw |-> FALSE,
                   catalog |-> [i \in 1..Len(order) |->
                                  [type |-> order[i], items |-> listed(loads, order[i])]]] }
         ELSE {})
  IN UNION { outcomes(loads) :
               loads \in { [t \in hasDir |-> loadContentType(tpl, t, entries)] } }

\* getCatalogItems: the lists of catalog.values(), one after another.
getCatalogItems(tpl, entries, completion) ==
  LET RECURSIVE flat(_)
      flat(catalog) == IF catalog = <<>> THEN <<>>
                       ELSE Head(catalog).items \o flat(Tail(catalog))
  IN { [threw |-> r.threw, items |-> flat(r.catalog)] :
         r \in loadCatalog(tpl, entries, completion) }

\* searchCatalog: filter on name, description, tags and category, each test
\* reached only when the ones before it are false.  toLowerCase of a name,
\* description or category that is an array, and some() of tags that are a
\* string, throw a TypeError.
searchCatalog(tpl, query, entries, completion) ==
  LET upper == "ABCDEFGHIJKLMNOPQRSTUVWXYZ"
      lower == "abcdefghijklmnopqrstuvwxyz"
      lowerChar(ch) == IF \E r \in 1..26 : SubSeq(upper, r, r) = ch
                         THEN SubSeq(lower, CHOOSE r \in 1..26 : SubSeq(upper, r, r) = ch,
                                     CHOOSE r \in 1..26 : SubSeq(upper, r, r) = ch)
                       ELSE ch
      RECURSIVE toLowerCase(_)
      toLowerCase(x) == IF x = "" THEN ""
                        ELSE lowerChar(SubSeq(x, 1, 1)) \o toLowerCase(SubSeq(x, 2, Len(x)))
      lowerQuery == toLowerCase(query)
      includes(x) == \E a \in 1..(Len(x) - Len(lowerQuery) + 1) :
                       SubSeq(x, a, a + Len(lowerQuery) - 1) = lowerQuery
      text(v) == IF v.type # "string" THEN "throw"
                 ELSE IF includes(toLowerCase(v.value)) THEN "match" ELSE "no"
      tags(item) == IF item.tags = <<>> THEN "no"
                    ELSE IF item.tags[1].type = "string" THEN "throw"
                    ELSE IF \E i \in 1..Len(item.tags[1].value) :
                              includes(toLowerCase(item.tags[1].value[i]))
                      THEN "match" ELSE "no"
      category(item) == IF item.category = <<>> THEN "no" ELSE text(item.category[1])
      test(item) == IF text(item.name) # "no" THEN text(item.name)
                    ELSE IF text(item.description) # "no" THEN text(item.description)
                    ELSE IF tags(item) # "no" THEN tags(item)
                    ELSE category(item)
      kept(items, tests) == { i \in 1..Len(items) : tests[i] = "match" }
      filter(items, tests) ==
        IF \E i \in 1..Len(items) : tests[i] = "throw"
          THEN [threw |-> TRUE, items |-> <<>>]
        ELSE [threw |-> FALSE,
              items |-> [j \in 1..Cardinality(kept(items, tests)) |->
                           items[CHOOSE i \in kept(items, tests) :
                                   Cardinality({ k \in kept(items, tests) : k <= i }) = j]]]
  IN UNION { IF r.threw THEN { [threw |-> TRUE, items |-> <<>>] }
             ELSE { filter(r.items, tests) :
                      tests \in { [i \in 1..Len(r.items) |-> test(r.items[i])] } } :
             r \in getCatalogItems(tpl, entries, completion) }

\* One getCatalogItems call and one searchCatalog call on the template root
\* as it is, the five loads of both completing in the same order.
SearchCatalogCall(query, entries, completion) ==
  /\ last.op \in {"templates", "searchCatalog"}
  /\ \E r \in getCatalogItems(templates, entries, completion) :
       \E found \in searchCatalog(templates, query, entries, completion) :
         last' = [op |-> "searchCatalog", query |-> query, entries |-> entries,
                  completion |-> completion, result |-> r, found |-> found]
  /\ calls' = calls + 1
  /\ UNCHANGED <<dirs, files, locks, readonly, templates, bridges, procs>>

NextCatalog ==
  \/ ValidateFrontmatterCall
  \/ ParseFrontmatterCall
  \/ \E type \in {"skills", "rules"} :
       \E entries \in { <<"alpha", "beta">>, <<"beta", "alpha">> } :
         LoadContentTypeCall(type, entries)
  \/ \E query \in {"Eta", "front"} :
       \E entries \in { <<"alpha", "beta">> } :
         \E completion \in { <<"skills", "rules">>, <<"rules", "skills">>,
                              <<"skills">>, <<"rules">>, <<>> } :
           /\ calls < MaxCalls
           /\ \A t \in {"skills", "rules"} :
                (t \in Range(completion))
                  <=> (\E k \in DOMAIN templates : k[1] = t /\ templates[k].exists)
           /\ SearchCatalogCall(query, entries, completion)

SpecCatalog == InitCatalog /\ [][NextCatalog]_vars

C15_NoIssuesWithoutCategoryAndTags ==
  ( /\ last.op = "validateFrontmatter"
    /\ DOMAIN last.frontmatter = {"name", "description"}
    /\ last.frontmatter["name"].value = "my-skill"
    /\ last.frontmatter["description"].value = "Does X. Use when Y."
    /\ last.folderId = "my-skill" )
    => last.result.valid /\ last.result.issues = <<>>

\* C15 (amended): that call gives valid = true and exactly two issues, the
\* warnings for the missing category and the missing tags; with a category
\* and tags added the issue list is empty.
C15_OnlyRecommendedWarnings ==
  ( /\ last.op = "validateFrontmatter"
    /\ {"name", "description"} \subseteq DOMAIN last.frontmatter
    /\ "author" \notin DOMAIN last.frontmatter
    /\ last.frontmatter["name"].value = "my-skill"
    /\ last.frontmatter["description"].value = "Does X. Use when Y."
    /\ last.folderId = "my-skill" )
    => /\ last.result.valid
       /\ DOMAIN last.frontmatter = {"name", "description"}
            => last.result.issues
                 = << [field |-> "category", severity |-> "warning",
                       message |-> "Missing recommended field"],
                      [field |-> "tags", severity |-> "warning",
                       message |-> "Missing recommended field"] >>
       /\ ( /\ DOMAIN last.frontmatter = {"name", "description", "category", "tags"}
            /\ last.frontmatter["category"].value # "" )
            => last.result.issues = <<>>

C15_Witness ==
  /\ last.op = "validateFrontmatter"
  /\ DOMAIN last.frontmatter = {"name", "description"}
  /\ last.frontmatter["name"].value = "my-skill"
  /\ last.frontmatter["description"].value = "Does X. Use when Y."
  /\ last.folderId = "my-skill"
  /\ last.result.valid
  /\ Len(last.result.issues) = 2

----------------------------------------------------------------------------
\* C16 (as claimed): every assistant of the registry that is universal maps
\* every content type it supports to the canonical relative location
\* .ai/<type>, never to a directory of its own.
C16_UniversalPathsCanonical ==
  last.op = "getAssistantsForContentType"
    => \A i \in 1..Len(last.result) :
         last.result[i].isUniversal
           => last.result[i].paths[last.type] = <<".ai", last.type>>

----------------------------------------------------------------------------
\* C17: generateBridgeFiles returns exactly one bridge file per distinct
\* family among the requested assistants plus the universal family
\* (AGENTS.md), which is there for every input, the empty list and ids
\* without a family included; assistants sharing a family give one file.
C17_OneFilePerFamily ==
  last.op = "generateBridgeFiles"
    => LET family(id) ==
             CASE id \in {"claude", "cursor", "copilot", "windsurf", "gemini"} -> {id}
               [] id = "antigravity" -> {"gemini"}
               [] id \in {"codex", "amp", "kilo"} -> {"universal"}
               [] OTHER -> {}
           families == UNION { family(id) : id \in Range(last.assistants) } \cup {"universal"}
           result == last.result
       IN /\ { result[i].editorId : i \in 1..Len(result) } = families
          /\ Len(result) = Cardinality(families)
          /\ \E i \in 1..Len(result) : result[i].filePath = <<"AGENTS.md">>
          /\ \A i, j \in 1..Len(result) : result[i].filePath = result[j].filePath => i = j

\* C17 witness: codex and amp, both of the universal family, were asked
\* for and one file, AGENTS.md, came back.
C17_Witness ==
  /\ last.op = "generateBridgeFiles"
  /\ last.assistants = <<"codex", "amp">>
  /\ Len(last.result) = 1
  /\ last.result[1].filePath = <<"AGENTS.md">>

----------------------------------------------------------------------------
\* C18: loadContentType raises no error and returns an item for a template
\* directory only if the directory contains the type's content file and that
\* file has a frontmatter block (it opens with the line of three hyphens).
C18_MalformedExcluded ==
  last.op = "loadContentType" =>
    /\ ~last.result.threw
    /\ \A i \in 1..Len(last.result.items) :
         LET key == getItemKey(last.type, last.result.items[i].id)
             fileName == getContentFileName(last.type)
         IN /\ templates[key].exists
            /\ fileName \in DOMAIN templates[key].entries
            /\ Len(templates[key].entries[fileName]) >= 4
            /\ SubSeq(templates[key].entries[fileName], 1, 4) = "---\n"

\* C19 (as claimed): parseFrontmatter on a text without an opening line of
\* three hyphens or without a closing line of three hyphens returns an
\* empty mapping and the whole text as body; on a text with both lines it
\* returns the pairs of the lines between them (a key for every line that
\* has a colon after its first character) and the text after the closing
\* line as body.
C19_ParseFrontmatter ==
  last.op = "parseFrontmatter"
    => LET RECURSIVE lines(_)
           lines(x) ==
             IF \A i \in 1..Len(x) : SubSeq(x, i, i) # "\n" THEN <<x>>
             ELSE LET i == CHOOSE i \in 1..Len(x) :
                             /\ SubSeq(x, i, i) = "\n"
                             /\ \A j \in 1..(i - 1) : SubSeq(x, j, j) # "\n"
                  IN <<SubSeq(x, 1, i - 1)>> \o lines(SubSeq(x, i + 1, Len(x)))
           all == lines(last.content)
           closing == { i \in 2..Len(all) : all[i] = "---" }
           c == CHOOSE i \in closing : \A j \in closing : i <= j
           keyed == { i \in 2..(c - 1) :
                        \E j \in 2..Len(all[i]) :
                          SubSeq(all[i], j, j) = ":" /\ SubSeq(all[i], 1, 1) # ":" }
           r == last.result
       IN IF all[1] # "---" \/ closing = {}
            THEN DOMAIN r.frontmatter = {} /\ r.body = last.content
          ELSE /\ (keyed = {}) <=> (DOMAIN r.frontmatter = {})
               /\ \A k \in DOMAIN r.frontmatter :
                    \E i \in keyed : \E a \in 1..(Len(all[i]) - Len(k) + 1) :
                      SubSeq(all[i], a, a + Len(k) - 1) = k
               /\ IF c = Len(all) THEN r.body = ""
                  ELSE lines(r.body) = SubSeq(all, c + 1, Len(all))

\* C20 (as claimed): when two updateLockFile calls for different keys on the
\* same lock file both read before either writes, the lock file, once both
\* have finished, is the document of one of them (the later writer), which
\* does not hold the other one's update.
C20_LaterWriterWins ==
  ( /\ \A w \in Writers : procs[w].pc = "done"
    /\ \A w \in Writers : procs[w].lockFile = DocWith(BarForCursor)
    /\ getItemKey(procs["update1"].item.type, procs["update1"].item.id)
         # getItemKey(procs["update2"].item.type, procs["update2"].item.id) )
  => \E w \in Writers :
       /\ ~ParseThrows(locks[ConcPath])
       /\ JsonParse(locks[ConcPath]) = procs[w].doc
       /\ \A v \in Writers \ {w} : JsonParse(locks[ConcPath]) # procs[v].doc

\* C21: an uninstallItem call that reports success for an item the lock file
\* of the scope lists leaves the lock file as it was: afterwards
\* isItemInstalled is false for every assistant while isInstalled is still
\* true and the entry's assistants are unchanged.
C21_UninstallKeepsLockEntry ==
  [][ ( /\ last'.op = "uninstallItem"
        /\ last'.result
        /\ isInstalled(locks, last'.item.type, last'.item.id, last'.scope, RootOf(last'.root)) )
      => /\ locks' = locks
         /\ \A a \in AssistantIds :
              ~isItemInstalled([dirs |-> dirs', files |-> files', locks |-> locks'],
                               last'.item, a, last'.scope, RootOf(last'.root))
         /\ isInstalled(locks', last'.item.type, last'.item.id, last'.scope, RootOf(last'.root))
         /\ InstalledNow(last'.scope, RootOf(last'.root))
               [getItemKey(last'.item.type, last'.item.id)].assistants
             = readLockFile(locks', last'.scope, RootOf(last'.root)).installed
                 [getItemKey(last'.item.type, last'.item.id)].assistants
    ]_vars

C21_Witness ==
  /\ last.op = "uninstallItem"
  /\ last.result
  /\ last.existed
  /\ last.item = Foo
  /\ isInstalled(locks, "skills", "foo", last.scope, RootOf(last.root))
  /\ ~isItemInstalled(World, Foo, "claude", last.scope, RootOf(last.root))
  /\ InstalledNow(last.scope, RootOf(last.root))[getItemKey("skills", "foo")].assistants
       = <<"claude", "cursor">>

\* C22: every file returned by generateBridgeFiles lists exactly the
\* subdirectories of <projectRoot>/.ai that exist (skills and rules when none
\* does), and holds the rules, skills, context and commands paragraph iff that
\* directory is listed.
C22_BridgeListsExistingDirs ==
  last.op = "generateBridgeFiles" =>
    LET root == IF last.root = NoRoot THEN Cwd ELSE last.root
        exist == { t \in {"skills", "rules", "agents", "commands", "prompts", "context"} :
                     Resolve(Join(Join(root, <<".ai">>), <<t>>)) \in dirs }
        expected == IF exist = {} THEN {"skills", "rules"} ELSE exist
    IN \A i \in 1..Len(last.result) :
         LET content == last.result[i].content
         IN /\ Range(content.directory) = expected
            /\ Len(content.directory) = Cardinality(expected)
            /\ \A t \in {"rules", "skills", "context", "commands"} :
                 (t \in Range(content.instructions)) <=> (t \in expected)
            /\ Range(content.instructions) \subseteq {"rules", "skills", "context", "commands"}

C22_Witness ==
  /\ last.op = "generateBridgeFiles"
  /\ Len(last.result) = 3
  /\ last.result[1].content.directory = <<"prompts">>
  /\ last.result[1].content.instructions = <<>>

\* C23: an installItems call leaves the lock entry of every item whose copy
\* failed exactly as it was (absent stays absent, an existing entry keeps its
\* hash, installedAt and assistants), and every entry the call created or
\* changed belongs to an item whose result has success = true.
C23_FailedCopyKeepsLockEntry ==
  [][ last'.op = "installItems" =>
        LET before == readLockFile(locks, last'.scope, RootOf(last'.root)).installed
            after == readLockFile(locks', last'.scope, RootOf(last'.root)).installed
            results == last'.summary.results
            keyOf(i) == getItemKey(results[i].item.type, results[i].item.id)
        IN /\ \A i \in 1..Len(results) :
                ~results[i].success
                  => /\ (keyOf(i) \in DOMAIN after) <=> (keyOf(i) \in DOMAIN before)
                     /\ keyOf(i) \in DOMAIN before => after[keyOf(i)] = before[keyOf(i)]
           /\ \A key \in DOMAIN after :
                (key \notin DOMAIN before \/ after[key] # before[key])
                  => \E i \in 1..Len(results) : results[i].success /\ keyOf(i) = key
    ]_vars

C23_Witness ==
  /\ last.op = "installItems"
  /\ last.items = <<Foo, Bar>>
  /\ last.assistants = <<"cursor">>
  /\ ~last.rejected
  /\ ~last.summary.results[1].success
  /\ last.summary.results[2].success
  /\ getItemKey("rules", "bar") \in DOMAIN InstalledNow(last.scope, RootOf(last.root))
  /\ getItemKey("skills", "foo") \in DOMAIN InstalledNow(last.scope, RootOf(last.root))
  /\ InstalledNow(last.scope, RootOf(last.root))[getItemKey("skills", "foo")].assistants
       = <<"claude">>

\* C24 (as claimed): after installItems calls, every entry of the global lock
\* file has scope = global and every entry of the lock file of a project root
\* passed to the calls has scope = project.
C24_EntryScopeIsFileScope ==
  last.op = "installItems" =>
    \A t \in ScopeTargets :
      \A key \in DOMAIN InstalledNow(t.scope, t.root) :
        InstalledNow(t.scope, t.root)[key].scope = t.scope

\* C25: every lock entry written by installItems has source = "builtin" and
\* method = "symlink", and the call's outcome (directories, files, lock files
\* and summary) is the one the other value of the method argument gives.
C25_MethodArgumentIgnored ==
  [][ last'.op = "installItems" =>
        LET after == readLockFile(locks', last'.scope, RootOf(last'.root)).installed
            results == last'.summary.results
            other == installItems(World, last'.items, last'.assistants, last'.scope,
                                  IF last'.method = "copy" THEN "symlink" ELSE "copy",
                                  last'.root)
        IN /\ \A i \in 1..Len(results) :
                (results[i].success /\ ~last'.rejected)
                  => LET key == getItemKey(results[i].item.type, results[i].item.id)
                     IN /\ key \in DOMAIN after
                        /\ after[key].source = "builtin"
                        /\ after[key].method = "symlink"
           /\ other.w = [dirs |-> dirs', files |-> files', locks |-> locks']
           /\ other.summary = last'.summary
           /\ other.rejected = last'.rejected
    ]_vars

C25_Witness ==
  /\ last.op = "installItems"
  /\ last.method = "copy"
  /\ ~last.rejected
  /\ last.summary.successful = 1
  /\ InstalledNow(last.scope, RootOf(last.root))[getItemKey("skills", "foo")].method = "symlink"
  /\ Join(InstalledDir(Foo, last.scope, last.root), <<"SKILL.md">>) \in DOMAIN files

\* C26: removeFromLockFile called for a key that is not in the installed map,
\* or for an assistant that is not in the assistants of an entry that has
\* some, leaves the installed map as it was; for an absent key it writes
\* nothing at all (no lock file and no directory is created or rewritten).
C26_RemoveNothingIsNoOp ==
  [][ last'.op = "removeFromLockFile" =>
        LET key == getItemKey(last'.type, last'.id)
            before == readLockFile(locks, last'.scope, last'.root).installed
            after == readLockFile(locks', last'.scope, last'.root).installed
        IN /\ key \notin DOMAIN before
                => /\ after = before
                   /\ locks' = locks
                   /\ dirs' = dirs
           /\ ( /\ key \in DOMAIN before
                /\ before[key].assistants # <<>>
                /\ last'.assistantId \notin Range(before[key].assistants) )
                => after = before
    ]_vars

C26_Witness ==
  /\ last.op = "removeFromLockFile"
  /\ ~last.threw
  /\ getItemKey(last.type, last.id) \in DOMAIN last.lockFile.installed
  /\ last.lockFile.installed[getItemKey(last.type, last.id)].assistants = <<"claude">>
  /\ last.assistantId = "cursor"
  /\ InstalledNow(last.scope, last.root) = last.lockFile.installed

\* C27 (as claimed): after any sequence of installItems, updateLockFile and
\* removeFromLockFile calls no assistant id occurs twice in the assistants of
\* a lock entry.
C27_AssistantsDuplicateFree ==
  \A t \in LockTargets :
    \A key \in DOMAIN InstalledNow(t.scope, t.root) :
      LET assistantIds == InstalledNow(t.scope, t.root)[key].assistants
      IN \A i, j \in 1..Len(assistantIds) : assistantIds[i] = assistantIds[j] => i = j

\* C28: the files generateBridgeFiles returns have pairwise different
\* filePaths, and writeBridgeFiles on such a list returns written and skipped
\* lists that are disjoint and together hold every generated filePath exactly
\* once; with overwrite = true skipped is empty.
C28_WrittenSkippedPartition ==
  /\ last.op = "generateBridgeFiles"
       => \A i, j \in 1..Len(last.result) :
            last.result[i].filePath = last.result[j].filePath => i = j
  /\ last.op = "writeBridgeFiles"
       => /\ \A i, j \in 1..Len(last.files) :
               last.files[i].filePath = last.files[j].filePath => i = j
          /\ Range(last.written) \cap Range(last.skipped) = {}
          /\ Range(last.written) \cup Range(last.skipped)
               = { last.files[i].filePath : i \in 1..Len(last.files) }
          /\ Len(last.written) + Len(last.skipped) = Len(last.files)
          /\ last.overwrite => last.skipped = <<>>

C28_Witness ==
  /\ last.op = "writeBridgeFiles"
  /\ ~last.overwrite
  /\ Len(last.files) = 2
  /\ last.skipped = << <<"CLAUDE.md">> >>
  /\ last.written = << <<"AGENTS.md">> >>

\* C29 (as claimed): on an unchanged template root two calls of
\* getCatalogItems, and two searchCatalog calls with the same query, return
\* the items in the same order, whatever order the loads complete in.
C29_CatalogOrderDeterministic ==
  [][ ( /\ last.op = "searchCatalog"
        /\ last'.op = "searchCatalog"
        /\ last'.entries = last.entries
        /\ ~last.result.threw
        /\ ~last'.result.threw )
      => /\ last'.result.items = last.result.items
         /\ (last'.query = last.query /\ ~last.found.threw /\ ~last'.found.threw)
              => last'.found.items = last.found.items
    ]_vars

\* C30: savePreferences and updateLastCheck leave the installed map of the
\* lock file they address as it was; after savePreferences, getPreferences
\* returns the earlier preferences overridden by the ones of the call, so a
\* key saved earlier and not named in the call keeps its value.
C30_PreferencesMergeKeepsInstalled ==
  [][ (last'.op \in {"savePreferences", "updateLastCheck"} /\ ~last'.threw)
      => /\ readLockFile(locks', last'.scope, last'.root).installed
              = readLockFile(locks, last'.scope, last'.root).installed
         /\ last'.op = "savePreferences"
              => LET old == getPreferences(locks, last'.scope, last'.root)
                     now == getPreferences(locks', last'.scope, last'.root)
                 IN /\ now # <<>>
                    /\ DOMAIN now[1] = DOMAIN last'.preferences
                                         \cup (IF old = <<>> THEN {} ELSE DOMAIN old[1])
                    /\ \A k \in DOMAIN last'.preferences : now[1][k] = last'.preferences[k]
                    /\ old # <<>>
                         => \A k \in DOMAIN old[1] \ DOMAIN last'.preferences :
                              now[1][k] = old[1][k]
    ]_vars

C30_Witness ==
  /\ last.op = "savePreferences"
  /\ ~last.threw
  /\ last.preferences = [k \in {"defaultMethod"} |-> "copy"]
  /\ last.lockFile.preferences = << [k \in {"defaultScope"} |-> "global"] >>
  /\ getPreferences(locks, last.scope, last.root)
       = << [k \in {"defaultScope", "defaultMethod"} |->
               IF k = "defaultScope" THEN "global" ELSE "copy"] >>


=============================================================================
